---- MODULE Spec2Model ----
(***************************************************************************)
(* Model of the two Athena query entry points of the repository:           *)
(*   - src/lambda/athena-query-runner/lambda_function.py  ("runner")       *)
(*   - src/lambda/athena_query_executor.py                ("executor")     *)
(* One invocation of one entry point is modelled against a query service   *)
(* that answers every request nondeterministically (any status, any page,  *)
(* or an exception).                                                       *)
(* The two Glue ETL scripts are modelled as pipelines over a batch:        *)
(*   - src/etl/glue_jobs/retail_data_etl.py               ("retail")       *)
(*   - src/etl/glue_job/job_script.py                     ("script")       *)
(***************************************************************************)
EXTENDS Integers, Sequences, FiniteSets, TLC

(***************************************************************************)
(* Bounds of the model (not program constants)                             *)
(***************************************************************************)
\* number of result pages whose content is recorded; later pages are empty
MaxPages == 2
\* size of the large page the service can deliver
BigPage == 98
\* number of rows (header included) of the generated result table
TableLen == 103
\* seconds a slow service takes to answer one status request
SlowRequest == 7
\* longest batch built from the records that share transaction ids
MaxBatch == 2
\* number of invocations of the runner that run at the same time
NumInvocations == 2
\* number of times the service answers RUNNING for an execution that ends
MaxRunningAnswers == 1

(***************************************************************************)
(* Program constants                                                       *)
(***************************************************************************)
\* lambda_function.py:59 and athena_query_executor.py:63 (max_wait_time)
max_wait_time == 300
\* lambda_function.py:60 (wait_interval) and athena_query_executor.py:76
wait_interval == 5
\* lambda_function.py:132 (max_rows default, passed as MaxItems)
max_rows == 100

\* Python's None, and a dictionary key that is not present
None == "<None>"

DATABASE == "retail_analytics_db"
OUTPUT_LOCATION == "s3://your-athena-results-bucket/query-results/"

(***************************************************************************)
(* Input domains                                                           *)
(***************************************************************************)
\* values an event key can carry: missing (None), empty, or a real value
ParamValues == {None, "", "v"}
\* query_type values of the events tried (None: the key is missing)
QueryTypes == {"daily_sales_summary", "revenue_trends", "custom", "bogus",
               None}
\* identifiers: the ones the service issues and the ones uuid4 draws
ExecIds == {"id-1", "id-2"}
NonTerminal == {"QUEUED", "RUNNING"}
Terminal == {"SUCCEEDED", "FAILED", "CANCELLED"}
States == NonTerminal \cup Terminal
\* StateChangeReason supplied by the service with a status (None: no key)
Reasons == {None, "SYNTAX_ERROR: line 1"}
\* NextToken of a result page (None: no key)
Tokens == {None, "token-a", "token-b"}
Latencies == {0, SlowRequest}
ServiceError == "An error occurred (ThrottlingException)"
TableNames == {"plain", "odd"}

Min(a, b) == IF a < b THEN a ELSE b

\* The rows the service holds for the query; a row is its list of cells
\* (the VarCharValue of each cell, None when the cell has no VarCharValue).
\* A table with a header and TableLen - 1 data rows:
PlainTable ==
    [k \in 1..TableLen |->
       IF k = 1 THEN <<"id", "amount">>
                ELSE <<ToString(k - 1), ToString(10 * (k - 1))>>]

\* A table with two columns of the same name, a short row, a cell without
\* value and a row longer than the header:
OddTable ==
    << <<"a", "b", "a">>, <<"1", "2", "3">>, <<"4">>,
       <<"5", None, "6">>, <<"7", "8", "9", "10">> >>

Table(t) == IF t = "plain" THEN PlainTable ELSE OddTable

PageSizes == {0, 1, 3, BigPage}

(***************************************************************************)
(* State                                                                   *)
(***************************************************************************)
VARIABLES
    entry,               \* which entry point this invocation runs
    event,               \* the event dictionary
    pc,                  \* position of the invocation in the handler
    latency,             \* seconds the service takes per status request
    now,                 \* wall clock (time.time()), seconds
    start_time,          \* executor: start_time of _wait_for_query_completion
    elapsed_time,        \* runner: elapsed_time counter
    query_execution_id,  \* runner: id from the response; executor: uuid4()
    execution_id,        \* executor: id from the response
    status,              \* local variable status
    table,               \* the result table held by the service
    pages,               \* sizes of the pages the service has delivered
    total_items,         \* runner: rows the paginator has yielded so far
    first_page,          \* runner: first_page flag
    next_token,          \* executor: next_token
    columns,             \* executor: columns
    results,             \* accumulated results
    calls,               \* requests issued to the query service, in order
    svc,                 \* what the service did: id issued, last state/reason
    raised,              \* the request that raised, None if none did
    response,            \* the returned response (NoResponse while running)
    job,                 \* the ETL script that runs, None for a query
    stage,               \* the next step of the ETL script
    raw,                 \* the batch read from the catalog
    df,                  \* the dataframe the script is working on
    current_date,        \* datetime.now() as read by filter_valid_data
    ai_event,            \* ai_query_processor: the event dictionary
    openai_api_key,      \* ai_query_processor: TRUE when the key is set
    ai_pc,               \* ai_query_processor: position of the handler
    user_request,        \* ai_query_processor: local variable user_request
    query_results,       \* ai_query_processor: local variable query_results
    ai_calls,            \* ai_query_processor: model and template calls
    ai_response,         \* ai_query_processor: the returned response
    invocations,         \* concurrent runners: the locals of each of them
    executions,          \* concurrent runners: the executions at the service
    requests             \* concurrent runners: requests not yet answered

queryVars == <<entry, event, pc, latency, now, start_time, elapsed_time,
               query_execution_id, execution_id, status, table, pages,
               total_items, first_page, next_token, columns, results, calls,
               svc, raised, response>>

etlVars == <<job, stage, raw, df, current_date>>

aiVars == <<ai_event, openai_api_key, ai_pc, user_request, query_results,
            ai_calls, ai_response>>

concVars == <<invocations, executions, requests>>

\* what a step of a query invocation leaves alone, and what an ETL step does
nonQueryVars == <<etlVars, aiVars, concVars>>

nonEtlVars == <<queryVars, aiVars, concVars>>

nonAiVars == <<queryVars, etlVars, concVars>>

nonConcVars == <<queryVars, etlVars, aiVars>>

vars == <<queryVars, etlVars, aiVars, concVars>>

Call(op, id) == [op |-> op, id |-> id]

RECURSIVE Sum(_)
Sum(s) == IF s = <<>> THEN 0 ELSE Head(s) + Sum(Tail(s))

\* rows the service has delivered so far, over all pages, in order
Delivered == SubSeq(Table(table), 1, Sum(pages))

\* The service can deliver a page of n rows: it holds that many more rows,
\* and once MaxPages pages are recorded it only delivers empty pages.
CanDeliver(n) ==
    /\ n <= Len(Table(table)) - Sum(pages)
    /\ (Len(pages) < MaxPages \/ n = 0)

NextPage(n) == SubSeq(Table(table), Sum(pages) + 1, Sum(pages) + n)

Recorded(n) == IF Len(pages) < MaxPages THEN Append(pages, n) ELSE pages

\* the log of requests, which like pages stops growing after MaxPages pages
Logged(c) == IF Len(pages) < MaxPages THEN Append(calls, c) ELSE calls

(***************************************************************************)
(* Responses                                                               *)
(***************************************************************************)
RunnerNoResults == [columns |-> <<>>, rows |-> <<>>, row_count |-> 0,
                    error |-> None]

NoResults == IF entry = "runner" THEN RunnerNoResults ELSE <<>>

NoResponse ==
    [statusCode |-> 0, keys |-> {}, success |-> FALSE, error |-> None,
     query_execution_id |-> None, execution_id |-> None, status |-> None,
     results |-> NoResults]

\* lambda_function.py:121-129, the except branch of the runner
RunnerExceptionResponse(msg) ==
    [NoResponse EXCEPT !.statusCode = 500, !.keys = {"success", "error"},
                       !.error = msg]

\* lambda_function.py:85-92
RunnerSuccessResponse(id, st, res) ==
    [NoResponse EXCEPT !.statusCode = 200,
                       !.keys = {"success", "metadata", "results"},
                       !.success = TRUE, !.query_execution_id = id,
                       !.status = st, !.results = res]

\* lambda_function.py:94-105
RunnerFailedResponse(id, reason) ==
    [NoResponse EXCEPT !.statusCode = 400,
                       !.keys = {"success", "error", "query_execution_id"},
                       !.error = "Query failed: " \o
                                 (IF reason = None THEN "Unknown error"
                                                   ELSE reason),
                       !.query_execution_id = id]

\* the timeout response without the execution id
RunnerTimeoutResponseNoId(id) ==
    [NoResponse EXCEPT !.statusCode = 408, !.keys = {"success", "error"},
                       !.error = "Query execution timed out"]

\* lambda_function.py:111-119
RunnerTimeoutResponse(id) ==
    [NoResponse EXCEPT !.statusCode = 408,
                       !.keys = {"success", "error", "query_execution_id"},
                       !.error = "Query execution timed out",
                       !.query_execution_id = id]

(***************************************************************************)
(* Runner: lambda_function.py                                              *)
(***************************************************************************)
\* Python truthiness of an event value: None and '' are false
Truthy(v) == v \notin {None, ""}

\* the validation with output_location left out of the list
RunnerValidNoOutput(ev) == Truthy(ev.sql_query) /\ Truthy(ev.database)

\* lambda_function.py:41, all([sql_query, database, output_location])
RunnerValid(ev) ==
    Truthy(ev.sql_query) /\ Truthy(ev.database) /\ Truthy(ev.output_location)

\* col.get('VarCharValue', '')
CellValue(c) == IF c = None THEN "" ELSE c

\* [col.get('VarCharValue', '') for col in row['Data']]
RowData(row) == [i \in 1..Len(row) |-> CellValue(row[i])]

RowDataAll(rows) == [i \in 1..Len(rows) |-> RowData(rows[i])]

\* the first page read without skipping its header row
RunnerFirstPageDataAll(page) == page

\* rows of the first page that are data rows: page['ResultSet']['Rows'][1:]
RunnerFirstPageData(page) == Tail(page)

\* lambda_function.py:150-169, the body of the loop for one yielded page
RunnerAddPage(res, first, page) ==
    IF first
    THEN IF page # <<>>
         THEN [res EXCEPT
                 !.columns = RowData(Head(page)),
                 !.rows = res.rows \o RowDataAll(RunnerFirstPageData(page)),
                 !.row_count = res.row_count + Len(RunnerFirstPageData(page))]
         ELSE res
    ELSE [res EXCEPT !.rows = res.rows \o RowDataAll(page),
                     !.row_count = res.row_count + Len(page)]

\* paginate(..., MaxItems=max_rows): rows of a page cut off beyond MaxItems
PaginatorTruncate(total, n) ==
    IF total + n > max_rows THEN max_rows - total ELSE n

\* the paginator stops after this page: truncated, no token, or limit reached
PaginatorStops(total, n, tok) ==
    \/ total + n >= max_rows
    \/ tok = None

\* the branch taken on a polled status: "results", "failed" or "sleep"
RunnerBranch(st) ==
    IF st \in {"SUCCEEDED"} THEN "results"
    ELSE IF st \in {"FAILED", "CANCELLED"} THEN "failed"
    ELSE "sleep"

\* a loop that still polls when the wait is used up
RunnerLoopGuardInclusive(elapsed) == elapsed <= max_wait_time

\* lambda_function.py:63, the loop condition
RunnerLoopGuard(elapsed) == elapsed < max_wait_time

\* a handler that submits the query again after a FAILED status
AfterReturnRetry(st) == IF st = "FAILED" THEN "start" ELSE "done"

\* where the handler continues after returning a response: nowhere
AfterReturn(st) == "done"

\* lambda_function.py:33-56: validation and submission
RunnerStart ==
    /\ entry = "runner" /\ pc = "start"
    /\ IF ~RunnerValid(event)
       THEN /\ response' = RunnerExceptionResponse(
                 "Missing required parameters: sql_query, database, output_location")
            /\ pc' = "done"
            /\ raised' = "ValueError"
            /\ UNCHANGED <<calls, svc, query_execution_id>>
       ELSE /\ calls' = Append(calls, Call("start_query_execution", None))
            /\ \/ /\ raised' = "start_query_execution"
                  /\ response' = RunnerExceptionResponse(ServiceError)
                  /\ pc' = "done"
                  /\ UNCHANGED <<svc, query_execution_id>>
               \/ \E id \in ExecIds :
                    /\ svc' = [svc EXCEPT !.issued = id]
                    /\ query_execution_id' = id
                    /\ pc' = "poll"
                    /\ UNCHANGED <<raised, response>>
    /\ UNCHANGED <<entry, event, latency, now, start_time, elapsed_time,
                   execution_id, status, table, pages, total_items,
                   first_page, next_token, columns, results>>
    /\ UNCHANGED nonQueryVars

\* lambda_function.py:63-105: one iteration of the loop up to the sleep; the
\* request takes latency seconds, which elapsed_time does not count
RunnerPoll ==
    /\ entry = "runner" /\ pc = "poll"
    /\ RunnerLoopGuard(elapsed_time)
    /\ calls' = Append(calls, Call("get_query_execution", query_execution_id))
    /\ now' = now + latency
    /\ \/ /\ raised' = "get_query_execution"
          /\ response' = RunnerExceptionResponse(ServiceError)
          /\ pc' = "done"
          /\ UNCHANGED <<svc, status>>
       \/ \E st \in States, why \in Reasons :
            /\ (st \notin {"FAILED", "CANCELLED"} => why = None)
            /\ svc' = [svc EXCEPT !.state = st, !.reason = why]
            /\ status' = st
            /\ CASE RunnerBranch(st) = "results" ->
                      /\ pc' = "results"
                      /\ UNCHANGED <<raised, response>>
                 [] RunnerBranch(st) = "failed" ->
                      /\ response' = RunnerFailedResponse(query_execution_id, why)
                      /\ pc' = AfterReturn(st)
                      /\ UNCHANGED raised
                 [] OTHER ->
                      /\ pc' = "sleep"
                      /\ UNCHANGED <<raised, response>>
    /\ UNCHANGED <<entry, event, latency, start_time, elapsed_time,
                   query_execution_id, execution_id, table, pages,
                   total_items, first_page, next_token, columns, results>>
    /\ UNCHANGED nonQueryVars

\* lambda_function.py:107-109
RunnerSleep ==
    /\ entry = "runner" /\ pc = "sleep"
    /\ now' = now + wait_interval
    /\ elapsed_time' = elapsed_time + wait_interval
    /\ pc' = "poll"
    /\ UNCHANGED <<entry, event, latency, start_time, query_execution_id,
                   execution_id, status, table, pages, total_items,
                   first_page, next_token, columns, results, calls, svc,
                   raised, response>>
    /\ UNCHANGED nonQueryVars

\* lambda_function.py:111-119: the loop condition is false
RunnerTimeout ==
    /\ entry = "runner" /\ pc = "poll"
    /\ ~RunnerLoopGuard(elapsed_time)
    /\ response' = RunnerTimeoutResponse(query_execution_id)
    /\ pc' = "done"
    /\ UNCHANGED <<entry, event, latency, now, start_time, elapsed_time,
                   query_execution_id, execution_id, status, table, pages,
                   total_items, first_page, next_token, columns, results,
                   calls, svc, raised>>
    /\ UNCHANGED nonQueryVars

\* lambda_function.py:83 and 132-180: get_query_results fetches one page,
\* and returns to the handler (which returns 200) when the iteration ends
RunnerFetchPage ==
    /\ entry = "runner" /\ pc = "results"
    /\ calls' = Logged(Call("get_query_results", query_execution_id))
    /\ \/ /\ raised' = "get_query_results"
          /\ results' = [RunnerNoResults EXCEPT !.error = ServiceError]
          /\ response' = RunnerSuccessResponse(query_execution_id, status,
                                               results')
          /\ pc' = "done"
          /\ UNCHANGED <<pages, total_items, first_page>>
       \/ \E n \in PageSizes, tok \in Tokens :
            /\ CanDeliver(n)
            /\ pages' = Recorded(n)
            /\ LET kept == PaginatorTruncate(total_items, n)
                   page == SubSeq(NextPage(n), 1, kept)
               IN /\ results' = RunnerAddPage(results, first_page, page)
                  /\ total_items' = total_items + kept
            /\ first_page' = FALSE
            /\ IF PaginatorStops(total_items, n, tok)
               THEN /\ response' = RunnerSuccessResponse(query_execution_id,
                                                         status, results')
                    /\ pc' = "done"
               ELSE UNCHANGED <<response, pc>>
            /\ UNCHANGED raised
    /\ UNCHANGED <<entry, event, latency, now, start_time, elapsed_time,
                   query_execution_id, execution_id, status, table,
                   next_token, columns, svc>>
    /\ UNCHANGED nonQueryVars

(***************************************************************************)
(* Executor: athena_query_executor.py                                      *)
(***************************************************************************)
\* athena_query_executor.py:185-306, the text built by the four generators
\* for an event without date_range and filters
GeneratedQuery(query_type) ==
    CASE query_type = "daily_sales_summary" ->
           "SELECT ... GROUP BY DATE(transaction_timestamp), category ..."
      [] query_type = "top_products" ->
           "SELECT ... GROUP BY product_id, product_name, category ... LIMIT 10"
      [] query_type = "customer_analytics" ->
           "SELECT ... GROUP BY customer_id ... LIMIT 100"
      [] OTHER ->
           "SELECT ... GROUP BY year, month, category ..."

GeneratedTypes == {"daily_sales_summary", "top_products",
                   "customer_analytics", "revenue_trends"}

\* athena_query_executor.py:146-160: the query of an event, None (no query
\* built) for an invalid query type
QueryOf(ev) ==
    IF ev.query_type \in GeneratedTypes THEN GeneratedQuery(ev.query_type)
    ELSE IF ev.query_type = "custom" THEN ev.custom_query
    ELSE None

ValidQueryType(ev) == ev.query_type \in GeneratedTypes \cup {"custom"}

\* athena_query_executor.py:157-160
InvalidTypeResponse ==
    [NoResponse EXCEPT !.statusCode = 400, !.keys = {"error"},
                       !.error = "Invalid query type"]

\* athena_query_executor.py:165-174 around the dictionary of execute_query
ExecutorResponse(id, st, res, err) ==
    [NoResponse EXCEPT !.statusCode = 200,
                       !.keys = {"execution_id", "status", "results",
                                 "error", "timestamp"},
                       !.execution_id = id, !.status = st,
                       !.results = res, !.error = err]

\* athena_query_executor.py:56-61
ExecutorExceptionResponse(uuid, msg) ==
    ExecutorResponse(uuid, "FAILED", <<>>, msg)

\* athena_query_executor.py:44-48
ExecutorSuccessResponse(id, res) ==
    ExecutorResponse(id, "SUCCEEDED", res, None)

\* athena_query_executor.py:50-54
ExecutorErrorResponse(id, st, err) ==
    ExecutorResponse(id, st, <<>>, err)

\* athena_query_executor.py:69, the loop condition
ExecutorLoopGuard(t, start) == t - start < max_wait_time

\* athena_query_executor.py:73
ExecutorTerminal(st) == st \in {"SUCCEEDED", "FAILED", "CANCELLED"}

\* results fetched for every status but FAILED
ExecutorFetchesUnlessFailed(st) == st # "FAILED"

\* athena_query_executor.py:41
ExecutorFetches(st) == st = "SUCCEEDED"

\* athena_query_executor.py:100-103: the dictionary of one row, the later
\* cell winning when two columns have the same name
RowDict(cols, row) ==
    [c \in {cols[i] : i \in 1..Len(row)} |->
       LET last == CHOOSE i \in 1..Len(row) :
                     /\ cols[i] = c
                     /\ \A j \in 1..Len(row) : cols[j] = c => j <= i
       IN CellValue(row[last])]

RowDictAll(cols, rows) == [i \in 1..Len(rows) |-> RowDict(cols, rows[i])]

\* columns[i] raises IndexError for a row longer than the header
IndexErrorIn(cols, rows) ==
    \E i \in 1..Len(rows) : Len(rows[i]) > Len(cols)

\* col['VarCharValue'] raises KeyError for a header cell without a value
KeyErrorIn(header) == \E i \in 1..Len(header) : header[i] = None

\* athena_query_executor.py:95: this page is read as the one with the header
ExecutorTakesHeader(res, page) == res = <<>> /\ page # <<>>

\* athena_query_executor.py:94-109: the effect of one page on
\* [results, columns]; error is the exception raised, None if none
ExecutorAddPage(res, cols, page) ==
    IF ExecutorTakesHeader(res, page)
    THEN IF KeyErrorIn(Head(page))
         THEN [results |-> res, columns |-> cols, error |-> "'VarCharValue'"]
         ELSE IF IndexErrorIn(Head(page), Tail(page))
         THEN [results |-> res, columns |-> Head(page),
               error |-> "list index out of range"]
         ELSE [results |-> res \o RowDictAll(Head(page), Tail(page)),
               columns |-> Head(page), error |-> None]
    ELSE IF res # <<>>
    THEN IF IndexErrorIn(cols, page)
         THEN [results |-> res, columns |-> cols,
               error |-> "list index out of range"]
         ELSE [results |-> res \o RowDictAll(cols, page),
               columns |-> cols, error |-> None]
    ELSE [results |-> res, columns |-> cols, error |-> None]

\* athena_query_executor.py:131-163 and 25-36: the handler builds the query
\* and execute_query submits it, whatever the query text is; the call for a
\* missing or empty text is made and can only raise
ExecutorStart ==
    /\ entry = "executor" /\ pc = "start"
    /\ IF ~ValidQueryType(event)
       THEN /\ response' = InvalidTypeResponse
            /\ pc' = "done"
            /\ UNCHANGED <<calls, svc, raised, execution_id,
                           query_execution_id, start_time>>
       ELSE /\ calls' = Append(calls, Call("start_query_execution", None))
            /\ \/ \E uuid \in ExecIds :
                    /\ raised' = "start_query_execution"
                    /\ query_execution_id' = uuid
                    /\ response' = ExecutorExceptionResponse(uuid, ServiceError)
                    /\ pc' = "done"
                    /\ UNCHANGED <<svc, execution_id, start_time>>
               \/ \E id \in ExecIds :
                    /\ ~(QueryOf(event) \in {None, ""})
                    /\ svc' = [svc EXCEPT !.issued = id]
                    /\ execution_id' = id
                    /\ start_time' = now
                    /\ pc' = "poll"
                    /\ UNCHANGED <<raised, response, query_execution_id>>
    /\ UNCHANGED <<entry, event, latency, now, elapsed_time, status, table,
                   pages, total_items, first_page, next_token, columns,
                   results>>
    /\ UNCHANGED nonQueryVars

\* athena_query_executor.py:69-76: one iteration of the loop up to the sleep
ExecutorPoll ==
    /\ entry = "executor" /\ pc = "poll"
    /\ ExecutorLoopGuard(now, start_time)
    /\ calls' = Append(calls, Call("get_query_execution", execution_id))
    /\ now' = now + latency
    /\ \/ \E uuid \in ExecIds :
            /\ raised' = "get_query_execution"
            /\ query_execution_id' = uuid
            /\ response' = ExecutorExceptionResponse(uuid, ServiceError)
            /\ pc' = "done"
            /\ UNCHANGED <<svc, status>>
       \/ \E st \in States, why \in Reasons :
            /\ (st \notin {"FAILED", "CANCELLED"} => why = None)
            /\ svc' = [svc EXCEPT !.state = st, !.reason = why]
            /\ status' = st
            /\ pc' = IF ExecutorTerminal(st)
                     THEN IF ExecutorFetches(st) THEN "results" ELSE "geterr"
                     ELSE "sleep"
            /\ UNCHANGED <<raised, response, query_execution_id>>
    /\ UNCHANGED <<entry, event, latency, start_time, elapsed_time,
                   execution_id, table, pages, total_items, first_page,
                   next_token, columns, results>>
    /\ UNCHANGED nonQueryVars

\* athena_query_executor.py:76
ExecutorSleep ==
    /\ entry = "executor" /\ pc = "sleep"
    /\ now' = now + wait_interval
    /\ pc' = "poll"
    /\ UNCHANGED <<entry, event, latency, start_time, elapsed_time,
                   query_execution_id, execution_id, status, table, pages,
                   total_items, first_page, next_token, columns, results,
                   calls, svc, raised, response>>
    /\ UNCHANGED nonQueryVars

\* a timeout that stops the query at the service
ExecutorTimeoutCancels ==
    /\ entry = "executor" /\ pc = "poll"
    /\ ~ExecutorLoopGuard(now, start_time)
    /\ status' = "TIMEOUT"
    /\ calls' = Append(calls, Call("stop_query_execution", execution_id))
    /\ svc' = [svc EXCEPT !.state = "CANCELLED"]
    /\ pc' = IF ExecutorFetches(status') THEN "results" ELSE "geterr"
    /\ UNCHANGED <<entry, event, latency, now, start_time, elapsed_time,
                   query_execution_id, execution_id, table, pages,
                   total_items, first_page, next_token, columns, results,
                   raised, response>>
    /\ UNCHANGED nonQueryVars

\* athena_query_executor.py:78: the loop condition is false
ExecutorTimeout ==
    /\ entry = "executor" /\ pc = "poll"
    /\ ~ExecutorLoopGuard(now, start_time)
    /\ status' = "TIMEOUT"
    /\ pc' = IF ExecutorFetches(status') THEN "results" ELSE "geterr"
    /\ UNCHANGED <<entry, event, latency, now, start_time, elapsed_time,
                   query_execution_id, execution_id, table, pages,
                   total_items, first_page, next_token, columns, results,
                   calls, svc, raised, response>>
    /\ UNCHANGED nonQueryVars

\* athena_query_executor.py:49-54 and 117-125: _get_query_error asks the
\* service again and the dictionary is returned
ExecutorGetError ==
    /\ entry = "executor" /\ pc = "geterr"
    /\ calls' = Append(calls, Call("get_query_execution", execution_id))
    /\ \/ /\ response' = ExecutorErrorResponse(execution_id, status,
                            "Unable to retrieve error details")
       \/ \E why \in Reasons :
            response' = ExecutorErrorResponse(execution_id, status,
                           IF why = None THEN "Unknown error" ELSE why)
    /\ pc' = AfterReturn(status)
    /\ UNCHANGED <<entry, event, latency, now, start_time, elapsed_time,
                   query_execution_id, execution_id, status, table, pages,
                   total_items, first_page, next_token, columns, results,
                   svc, raised>>
    /\ UNCHANGED nonQueryVars

\* athena_query_executor.py:42-48 and 87-115: one iteration of the
\* while True loop, and the return when there is no next token
ExecutorFetchPage ==
    /\ entry = "executor" /\ pc = "results"
    /\ calls' = Logged(Call("get_query_results", execution_id))
    /\ \/ \E uuid \in ExecIds :
            /\ raised' = "get_query_results"
            /\ query_execution_id' = uuid
            /\ response' = ExecutorExceptionResponse(uuid, ServiceError)
            /\ pc' = "done"
            /\ UNCHANGED <<pages, results, columns, next_token>>
       \/ \E n \in PageSizes, tok \in Tokens :
            /\ CanDeliver(n)
            /\ pages' = Recorded(n)
            /\ LET r == ExecutorAddPage(results, columns, NextPage(n))
               IN IF r.error # None
                  THEN \E uuid \in ExecIds :
                         /\ raised' = r.error
                         /\ query_execution_id' = uuid
                         /\ response' = ExecutorExceptionResponse(uuid, r.error)
                         /\ pc' = "done"
                         /\ UNCHANGED <<results, columns, next_token>>
                  ELSE /\ results' = r.results
                       /\ columns' = r.columns
                       /\ next_token' = tok
                       /\ IF tok = None
                          THEN /\ response' = ExecutorSuccessResponse(
                                                 execution_id, results')
                               /\ pc' = "done"
                          ELSE UNCHANGED <<response, pc>>
                       /\ UNCHANGED <<raised, query_execution_id>>
    /\ UNCHANGED <<entry, event, latency, now, start_time, elapsed_time,
                   execution_id, status, table, total_items, first_page,
                   svc>>
    /\ UNCHANGED nonQueryVars

(***************************************************************************)
(* ETL: values of a dataframe                                              *)
(***************************************************************************)
\* A cell is Null or holds one value; a text that the script edits or
\* parses is held as its sequence of characters.
Null == <<>>

Some(v) == <<v>>

IsNull(c) == c = Null

Val(c) == c[1]

Digits == {"0", "1", "2", "3", "4", "5", "6", "7", "8", "9"}

DigitValue(ch) ==
    CASE ch = "0" -> 0 [] ch = "1" -> 1 [] ch = "2" -> 2 [] ch = "3" -> 3
      [] ch = "4" -> 4 [] ch = "5" -> 5 [] ch = "6" -> 6 [] ch = "7" -> 7
      [] ch = "8" -> 8 [] OTHER -> 9

\* the characters the pattern [^a-zA-Z0-9 ] keeps
KeptCharacters ==
    Digits \cup {" "} \cup
    {"a", "b", "c", "d", "e", "f", "g", "h", "i", "j", "k", "l", 
    "m", "n", "o", "p", "q", "r", "s", "t", "u", "v", "w", "x", 
    "y", "z"} \cup
    {"A", "B", "C", "D", "E", "F", "G", "H", "I", "J", "K", "L", 
    "M", "N", "O", "P", "Q", "R", "S", "T", "U", "V", "W", "X", 
    "Y", "Z"}

\* df.withColumn(name, value), df.drop(name) and df.select(names), per row
WithColumn(r, name, v) ==
    [f \in DOMAIN r \cup {name} |-> IF f = name THEN v ELSE r[f]]

Drop(r, name) == [f \in DOMAIN r \ {name} |-> r[f]]

Select(r, names) == [f \in names |-> r[f]]

(***************************************************************************)
(* ETL: retail_data_etl.py                                                 *)
(***************************************************************************)
\* retail_data_etl.py:29-34, the columns whose nulls are counted
ScoredFields == {"transaction_id", "customer_id", "product_id", "quantity",
                 "unit_price", "transaction_date"}

\* retail_data_etl.py:37, the divisor 6.0
ScoreDivisor == 6

\* the count without the column transaction_date
MissingFieldsCountNoDate(r) ==
    Cardinality({f \in ScoredFields \ {"transaction_date"} : IsNull(r[f])})

\* retail_data_etl.py:28-34: when(col.isNull(), 1).otherwise(0) summed up
MissingFieldsCount(r) == Cardinality({f \in ScoredFields : IsNull(r[f])})

\* a fraction n/d, for count / 6.0 and 1.0 - fraction
Fraction(n, d) == [n |-> n, d |-> d]

OneMinus(q) == Fraction(q.d - q.n, q.d)

\* retail_data_etl.py:35-38
QualityScore(count) == OneMinus(Fraction(count, ScoreDivisor))

\* retail_data_etl.py:27-38, for one row
QualityCheckRow(r) ==
    Drop(WithColumn(WithColumn(r, "missing_fields_count",
                               Some(MissingFieldsCount(r))),
                    "data_quality_score",
                    Some(QualityScore(MissingFieldsCount(r)))),
         "missing_fields_count")

\* regexp_replace(text, "[^a-zA-Z0-9 ]", "")
RECURSIVE RemoveOtherCharacters(_)
RemoveOtherCharacters(t) ==
    IF t = <<>> THEN <<>>
    ELSE IF Head(t) \in KeptCharacters
         THEN <<Head(t)>> \o RemoveOtherCharacters(Tail(t))
         ELSE RemoveOtherCharacters(Tail(t))

\* trim(text): spaces at both ends removed
RECURSIVE TrimLeft(_)
TrimLeft(t) ==
    IF t # <<>> /\ Head(t) = " " THEN TrimLeft(Tail(t)) ELSE t

RECURSIVE TrimRight(_)
TrimRight(t) ==
    IF t # <<>> /\ t[Len(t)] = " "
    THEN TrimRight(SubSeq(t, 1, Len(t) - 1)) ELSE t

Trim(t) == TrimRight(TrimLeft(t))

\* retail_data_etl.py:47-50
CleanProductName(c) ==
    IF IsNull(c) THEN Null ELSE Some(Trim(RemoveOtherCharacters(Val(c))))

\* col.isin(list): false for a null cell
IsIn(c, list) == ~IsNull(c) /\ Val(c) \in list

\* the mapping that leaves an unlisted category as it is
StandardCategoryOrSame(c) ==
    IF IsIn(c, {"Electronics", "ELECTRONICS", "electronics"})
    THEN Some("Electronics")
    ELSE IF IsIn(c, {"Clothing", "CLOTHING", "clothing", "Apparel"})
    THEN Some("Clothing")
    ELSE IF IsIn(c, {"Home", "HOME", "home", "Home & Garden"})
    THEN Some("Home")
    ELSE IF IsIn(c, {"Sports", "SPORTS", "sports", "Sports & Outdoors"})
    THEN Some("Sports")
    ELSE c

\* retail_data_etl.py:53-60
StandardCategory(c) ==
    IF IsIn(c, {"Electronics", "ELECTRONICS", "electronics"})
    THEN Some("Electronics")
    ELSE IF IsIn(c, {"Clothing", "CLOTHING", "clothing", "Apparel"})
    THEN Some("Clothing")
    ELSE IF IsIn(c, {"Home", "HOME", "home", "Home & Garden"})
    THEN Some("Home")
    ELSE IF IsIn(c, {"Sports", "SPORTS", "sports", "Sports & Outdoors"})
    THEN Some("Sports")
    ELSE Some("Other")

\* retail_data_etl.py:63-70
StandardPaymentMethod(c) ==
    IF IsIn(c, {"Credit Card", "CREDIT_CARD", "credit card"})
    THEN Some("Credit Card")
    ELSE IF IsIn(c, {"Debit Card", "DEBIT_CARD", "debit card"})
    THEN Some("Debit Card")
    ELSE IF IsIn(c, {"Cash", "CASH", "cash"})
    THEN Some("Cash")
    ELSE IF IsIn(c, {"PayPal", "PAYPAL", "paypal"})
    THEN Some("PayPal")
    ELSE Some("Other")

\* amounts are held in cents (sample_data_generator.py rounds to 2 places)
CentsPerUnit == 100

\* retail_data_etl.py:75 and 76, the thresholds
HighThreshold == 500

MediumThreshold == 100

\* the comparison with an exclusive threshold
MoreThan(c, threshold) == ~IsNull(c) /\ Val(c) > threshold * CentsPerUnit

\* col("total_amount") >= threshold: not true for a null cell
AtLeast(c, threshold) == ~IsNull(c) /\ Val(c) >= threshold * CentsPerUnit

\* retail_data_etl.py:73-78
RevenueCategory(total) ==
    IF AtLeast(total, HighThreshold) THEN Some("High")
    ELSE IF AtLeast(total, MediumThreshold) THEN Some("Medium")
    ELSE Some("Low")

\* the number written by the digits of t at positions from..to, -1 when
\* one of them is not a digit
RECURSIVE NumberAt(_, _, _)
NumberAt(t, from, to) ==
    IF to < from THEN 0
    ELSE IF t[to] \notin Digits \/ NumberAt(t, from, to - 1) < 0 THEN -1
    ELSE 10 * NumberAt(t, from, to - 1) + DigitValue(t[to])

DaysInMonth(y, m) ==
    IF m \in {4, 6, 9, 11} THEN 30
    ELSE IF m = 2
         THEN IF y % 4 = 0 /\ (y % 100 # 0 \/ y % 400 = 0) THEN 29 ELSE 28
    ELSE 31

\* a day as the number yyyymmdd, a time of day as the number hhmmss
DayNumber(y, m, d) == y * 10000 + m * 100 + d

ValidDay(y, m, d) ==
    y >= 0 /\ m \in 1..12 /\ d >= 1 /\ d <= DaysInMonth(y, m)

\* the day written as yyyy-MM-dd at the start of t, -1 when t does not
\* start with a valid day in that form
ParseDay(t) ==
    IF Len(t) < 10 \/ t[5] # "-" \/ t[8] # "-" THEN -1
    ELSE LET y == NumberAt(t, 1, 4)
             m == NumberAt(t, 6, 7)
             d == NumberAt(t, 9, 10)
         IN IF y < 0 \/ m < 0 \/ d < 0 \/ ~ValidDay(y, m, d) THEN -1
            ELSE DayNumber(y, m, d)

\* the time written as HH:mm:ss at positions 12..19 of t, -1 when invalid
ParseTime(t) ==
    IF Len(t) # 19 \/ t[11] # " " \/ t[14] # ":" \/ t[17] # ":" THEN -1
    ELSE LET h == NumberAt(t, 12, 13)
             mi == NumberAt(t, 15, 16)
             sec == NumberAt(t, 18, 19)
         IN IF h < 0 \/ mi < 0 \/ sec < 0 \/ h > 23 \/ mi > 59 \/ sec > 59
            THEN -1
            ELSE h * 10000 + mi * 100 + sec

Timestamp(day, time) == [day |-> day, time |-> time]

\* the first position from i on that holds no digit
RECURSIVE DigitsEnd(_, _)
DigitsEnd(t, i) ==
    IF i > Len(t) \/ t[i] \notin Digits THEN i ELSE DigitsEnd(t, i + 1)

\* The parser of Spark 2 (SimpleDateFormat, not lenient), which Spark 3
\* consults when its own parser fails: numbers of any width separated by
\* the given characters at the start of t, text after them ignored; <<>>
\* when t does not start that way.
RECURSIVE LegacyFields(_, _, _)
LegacyFields(t, i, separators) ==
    LET e == DigitsEnd(t, i)
    IN IF e = i THEN <<>>
       ELSE IF separators = <<>> THEN <<NumberAt(t, i, e - 1)>>
       ELSE IF e > Len(t) \/ t[e] # Head(separators) THEN <<>>
       ELSE LET rest == LegacyFields(t, e + 1, Tail(separators))
            IN IF rest = <<>> THEN <<>>
               ELSE <<NumberAt(t, i, e - 1)>> \o rest

LegacyReadsTimestamp(t) ==
    LET f == LegacyFields(t, 1, <<"-", "-", " ", ":", ":">>)
    IN f # <<>> /\ ValidDay(f[1], f[2], f[3])
       /\ f[4] <= 23 /\ f[5] <= 59 /\ f[6] <= 59

LegacyReadsDate(t) ==
    LET f == LegacyFields(t, 1, <<"-", "-">>)
    IN f # <<>> /\ ValidDay(f[1], f[2], f[3])

\* retail_data_etl.py:83 under GlueVersion 3.0 (job_manager.py:49), Spark
\* 3.1 with its default spark.sql.legacy.timeParserPolicy: a text that the
\* parser of Spark 3 rejects and the parser of Spark 2 reads raises
\* SparkUpgradeException
ToTimestampRaises(c) ==
    /\ ~IsNull(c)
    /\ ParseDay(Val(c)) < 0 \/ ParseTime(Val(c)) < 0
    /\ LegacyReadsTimestamp(Val(c))

\* retail_data_etl.py:83, to_timestamp(text, "yyyy-MM-dd HH:mm:ss"):
\* null for a null text and for a text that no parser reads
ToTimestamp(c) ==
    IF IsNull(c) THEN Null
    ELSE IF ParseDay(Val(c)) < 0 \/ ParseTime(Val(c)) < 0 THEN Null
    ELSE Some(Timestamp(ParseDay(Val(c)), ParseTime(Val(c))))

\* year(timestamp) and month(timestamp)
YearOf(c) == IF IsNull(c) THEN Null ELSE Some(Val(c).day \div 10000)

MonthOf(c) == IF IsNull(c) THEN Null ELSE Some((Val(c).day \div 100) % 100)

\* format_string("%02d", n): the formatter writes "null" for a null argument
FormatMonth(c) ==
    IF IsNull(c) THEN Some("null")
    ELSE IF Val(c) < 10 THEN Some("0" \o ToString(Val(c)))
    ELSE Some(ToString(Val(c)))

\* retail_data_etl.py:47-88, for one row
CleanRow(r) ==
    LET r1 == WithColumn(r, "product_name", CleanProductName(r.product_name))
        r2 == WithColumn(r1, "category", StandardCategory(r1.category))
        r3 == WithColumn(r2, "payment_method",
                         StandardPaymentMethod(r2.payment_method))
        r4 == WithColumn(r3, "revenue_category",
                         RevenueCategory(r3.total_amount))
        r5 == WithColumn(r4, "transaction_timestamp",
                         ToTimestamp(r4.transaction_date))
        r6 == WithColumn(r5, "year", YearOf(r5.transaction_timestamp))
    IN WithColumn(r6, "month", FormatMonth(MonthOf(r6.transaction_timestamp)))

\* retail_data_etl.py:98-104
EssentialFields == {"transaction_id", "customer_id", "product_id",
                    "quantity", "unit_price", "total_amount",
                    "transaction_timestamp"}

\* the check that lets a null customer_id pass
NoEssentialNullButCustomer(r) ==
    \A f \in EssentialFields \ {"customer_id"} : ~IsNull(r[f])

NoEssentialNull(r) == \A f \in EssentialFields : ~IsNull(r[f])

\* the comparison that lets 0 pass
NotNegative(c) == Val(c) >= 0

\* col > 0, for a cell that is not null
Positive(c) == Val(c) > 0

\* retail_data_etl.py:109-111
PositiveAmounts(r) ==
    Positive(r.quantity) /\ Positive(r.unit_price) /\ Positive(r.total_amount)

\* timestamp <= other timestamp
NotAfter(a, b) == a.day < b.day \/ (a.day = b.day /\ a.time <= b.time)

\* retail_data_etl.py:116-118
NotInFuture(r, today) == NotAfter(Val(r.transaction_timestamp), today)

\* retail_data_etl.py:97-118, the three filters on one row
IsValidRow(r, today) ==
    NoEssentialNull(r) /\ PositiveAmounts(r) /\ NotInFuture(r, today)

\* retail_data_etl.py:97-118, df.filter: the rows that pass, in order
RECURSIVE ValidRows(_, _)
ValidRows(d, today) ==
    IF d = <<>> THEN <<>>
    ELSE IF IsValidRow(Head(d), today)
         THEN <<Head(d)>> \o ValidRows(Tail(d), today)
         ELSE ValidRows(Tail(d), today)

\* retail_data_etl.py:150-156
final_columns ==
    {"transaction_id", "customer_id", "product_id", "product_name",
     "category", "quantity", "unit_price", "total_amount",
     "transaction_timestamp", "store_id", "sales_rep_id",
     "payment_method", "revenue_category", "data_quality_score",
     "year", "month"}

(***************************************************************************)
(* ETL: job_script.py                                                      *)
(***************************************************************************)
UpperCaseLetters == <<"A", "B", "C", "D", "E", "F", "G", "H", "I", "J", "K", "L",
    "M", "N", "O", "P", "Q", "R", "S", "T", "U", "V", "W", "X",
    "Y", "Z">>

LowerCaseLetters == <<"a", "b", "c", "d", "e", "f", "g", "h", "i", "j", "k", "l",
    "m", "n", "o", "p", "q", "r", "s", "t", "u", "v", "w", "x",
    "y", "z">>

\* str.lower(), for one character
LowerCharacter(ch) ==
    IF \E i \in 1..Len(UpperCaseLetters) : UpperCaseLetters[i] = ch
    THEN LowerCaseLetters[CHOOSE i \in 1..Len(UpperCaseLetters) :
                            UpperCaseLetters[i] = ch]
    ELSE ch

\* job_script.py:26, c.strip().lower().replace(" ", "_")
ColumnAlias(name) ==
    LET stripped == Trim(name)
    IN [i \in 1..Len(stripped) |->
          IF LowerCharacter(stripped[i]) = " " THEN "_"
          ELSE LowerCharacter(stripped[i])]

\* the columns the script names, job_script.py:29-45
transaction_id == <<"t", "r", "a", "n", "s", "a", "c", "t", "i", "o", "n", "_",
    "i", "d">>

date == <<"d", "a", "t", "e">>

customer_id == <<"c", "u", "s", "t", "o", "m", "e", "r", "_", "i", "d">>

product_category == <<"p", "r", "o", "d", "u", "c", "t", "_", "c", "a", "t", "e",
    "g", "o", "r", "y">>

quantity == <<"q", "u", "a", "n", "t", "i", "t", "y">>

price_per_unit == <<"p", "r", "i", "c", "e", "_", "p", "e", "r", "_", "u", "n",
    "i", "t">>

total_amount == <<"t", "o", "t", "a", "l", "_", "a", "m", "o", "u", "n", "t">>

year == <<"y", "e", "a", "r">>

month == <<"m", "o", "n", "t", "h">>

day == <<"d", "a", "y">>

\* job_script.py:26, trim(col(c)): the value as a text without the spaces
\* at its ends, null for a null
TrimCell(c) == IF IsNull(c) THEN Null ELSE Some(Trim(Val(c)))

\* job_script.py:26, for one row
SelectTrimRow(r) ==
    [a \in {ColumnAlias(c) : c \in DOMAIN r} |->
       TrimCell(r[CHOOSE c \in DOMAIN r : ColumnAlias(c) = a])]

\* job_script.py:29: the text raises SparkUpgradeException, as at
\* retail_data_etl.py:83
ToDateRaises(c) ==
    /\ ~IsNull(c)
    /\ Len(Val(c)) # 10 \/ ParseDay(Val(c)) < 0
    /\ LegacyReadsDate(Val(c))

\* job_script.py:29, to_date(text, "yyyy-MM-dd"): null for a null text and
\* for a text that no parser reads
ToDate(c) ==
    IF IsNull(c) THEN Null
    ELSE IF Len(Val(c)) # 10 \/ ParseDay(Val(c)) < 0 THEN Null
    ELSE Some(ParseDay(Val(c)))

\* job_script.py:32
KeyColumns ==
    {transaction_id, date, customer_id, product_category, total_amount}

HasKeyColumns(r) == \A c \in KeyColumns : ~IsNull(r[c])

\* job_script.py:32, na.drop: the rows that pass, in order
RECURSIVE RowsWithKeys(_)
RowsWithKeys(d) ==
    IF d = <<>> THEN <<>>
    ELSE IF HasKeyColumns(Head(d))
         THEN <<Head(d)>> \o RowsWithKeys(Tail(d))
         ELSE RowsWithKeys(Tail(d))

\* position of the decimal point of a text, 0 when it has none
PointAt(t) ==
    IF \E i \in 1..Len(t) : t[i] = "."
    THEN CHOOSE i \in 1..Len(t) :
           t[i] = "." /\ \A j \in 1..(i - 1) : t[j] # "."
    ELSE 0

\* the number written by an unsigned text with at most two decimal places,
\* in hundredths; -1 when the text is not such a number
Hundredths(t) ==
    LET p == PointAt(t)
        whole == IF p = 0 THEN t ELSE SubSeq(t, 1, p - 1)
        places == IF p = 0 THEN <<>> ELSE SubSeq(t, p + 1, Len(t))
        w == NumberAt(whole, 1, Len(whole))
        f == NumberAt(places, 1, Len(places))
    IN IF whole = <<>> \/ w < 0 \/ f < 0 \/ Len(places) > 2
          \/ (p # 0 /\ places = <<>>)
       THEN -1
       ELSE w * 100 + (IF Len(places) = 1 THEN 10 * f ELSE f)

\* the cast of a text to a number for a comparison with a number: null for
\* a text that is not a number
CastToNumber(c) ==
    IF IsNull(c) \/ Val(c) = <<>> THEN Null
    ELSE LET negative == Head(Val(c)) = "-"
             body == IF negative THEN Tail(Val(c)) ELSE Val(c)
         IN IF Hundredths(body) < 0 THEN Null
            ELSE Some(IF negative THEN 0 - Hundredths(body)
                      ELSE Hundredths(body))

\* job_script.py:35-37, when(col <= 0, None).otherwise(col): a comparison
\* that is null falls to otherwise
NullIfNotPositive(c) ==
    IF ~IsNull(CastToNumber(c)) /\ Val(CastToNumber(c)) <= 0 THEN Null
    ELSE c

\* job_script.py:35-37, for one row
FixValuesRow(r) ==
    LET r1 == WithColumn(r, quantity, NullIfNotPositive(r[quantity]))
        r2 == WithColumn(r1, price_per_unit,
                         NullIfNotPositive(r1[price_per_unit]))
    IN WithColumn(r2, total_amount, NullIfNotPositive(r2[total_amount]))

\* the sub-batches of d: for every set of kept positions, the rows at them
\* in order
RECURSIVE RowsAt(_, _, _)
RowsAt(d, kept, i) ==
    IF i > Len(d) THEN <<>>
    ELSE IF i \in kept THEN <<d[i]>> \o RowsAt(d, kept, i + 1)
    ELSE RowsAt(d, kept, i + 1)

\* a result that keeps every row
KeepEveryRow(d) == {d}

\* job_script.py:40, dropDuplicates(["transaction_id"]): one row is kept
\* for every value of the column; which one is not determined
DropDuplicates(d) ==
    {RowsAt(d, kept, 1) :
       kept \in {k \in SUBSET (1..Len(d)) :
                   /\ \A i \in 1..Len(d) :
                        \E j \in k : d[j][transaction_id] = d[i][transaction_id]
                   /\ \A i, j \in k :
                        d[i][transaction_id] = d[j][transaction_id] => i = j}}

\* year(date), month(date) and dayofmonth(date)
YearOfDate(c) == IF IsNull(c) THEN Null ELSE Some(Val(c) \div 10000)

MonthOfDate(c) == IF IsNull(c) THEN Null ELSE Some((Val(c) \div 100) % 100)

DayOfDate(c) == IF IsNull(c) THEN Null ELSE Some(Val(c) % 100)

\* job_script.py:43-45, for one row
PartitionColumnsRow(r) ==
    WithColumn(WithColumn(WithColumn(r, year, YearOfDate(r[date])),
                          month, MonthOfDate(r[date])),
               day, DayOfDate(r[date]))

(***************************************************************************)
(* ETL: input domains                                                      *)
(***************************************************************************)
\* the batches of length 0..n over a set of records
RECURSIVE BatchesUpTo(_, _)
BatchesUpTo(pool, n) ==
    IF n = 0 THEN {<<>>}
    ELSE BatchesUpTo(pool, n - 1) \cup
         {Append(b, r) : b \in {x \in BatchesUpTo(pool, n - 1) :
                                  Len(x) = n - 1},
                         r \in pool}

\* texts of the column transaction_date
GoodDate == <<"2", "0", "2", "4", "-", "0", "3", "-", "1", "5", " ", "1",
         "0", ":", "3", "0", ":", "0", "0">>

DateTexts ==
    {GoodDate,
     <<"2", "0", "2", "4", "-", "3", "-", "1", "5", " ", "1", "0", ":",
         "3", "0", ":", "0", "0">>,
     <<"2", "0", "2", "4", "-", "0", "3", "-", "1", "5">>,
     <<"1", "5", "/", "0", "3", "/", "2", "0", "2", "4", " ", "1",
         "0", ":", "3", "0", ":", "0", "0">>,
     <<"2", "0", "2", "4", "-", "1", "3", "-", "0", "1", " ", "0",
         "0", ":", "0", "0", ":", "0", "0">>,
     <<"2", "0", "2", "4", "-", "0", "2", "-", "3", "0", " ", "0",
         "8", ":", "0", "0", ":", "0", "0">>,
     <<"2", "0", "2", "3", "-", "1", "2", "-", "3", "1", " ", "2",
         "3", ":", "5", "9", ":", "5", "9">>,
     <<"2", "0", "2", "4", "-", "0", "7", "-", "0", "1", " ", "1",
         "2", ":", "0", "0", ":", "0", "0">>,
     <<"2", "0", "2", "4", "-", "0", "7", "-", "0", "1", " ", "1",
         "2", ":", "0", "0", ":", "0", "1">>,
     <<"2", "0", "2", "6", "-", "0", "1", "-", "0", "1", " ", "0",
         "0", ":", "0", "0", ":", "0", "0">>}

\* a raw record of the table retail_sales as the generator writes it
ValidRecord ==
    [transaction_id |-> Some("TXN_000001"),
     customer_id |-> Some("CUST_001"),
     product_id |-> Some("PROD_001"),
     product_name |-> Some(<<" ", "T", "-", "S", "h", "i", "r", "t", " ", "(", "M", ")",
          "!", " ">>),
     category |-> Some("ELECTRONICS"),
     quantity |-> Some(2),
     unit_price |-> Some(25000),
     total_amount |-> Some(50000),
     transaction_date |-> Some(GoodDate),
     store_id |-> Some("STORE_001"),
     sales_rep_id |-> Some("REP_001"),
     payment_method |-> Some("CREDIT_CARD")]

CategoryValues ==
    {Some(v) : v \in {"Electronics", "ELECTRONICS", "electronics",
                      "Clothing", "CLOTHING", "clothing", "Apparel",
                      "Home", "HOME", "home", "Home & Garden",
                      "Sports", "SPORTS", "sports", "Sports & Outdoors",
                      "Other", "Books", "Toys", "eLeCtRoNiCs", ""}}
    \cup {Null}

PaymentValues ==
    {Some(v) : v \in {"Credit Card", "CREDIT_CARD", "credit card",
                      "Debit Card", "DEBIT_CARD", "debit card",
                      "Cash", "CASH", "cash", "PayPal", "PAYPAL", "paypal",
                      "Other", "Bitcoin", "Gift Card", ""}}
    \cup {Null}

QuantityValues == {Null, Some(-1), Some(0), Some(1)}

\* amounts in cents: 99.99, 100.00, 499.99, 500.00 and others
AmountValues ==
    {Null, Some(-500), Some(0), Some(1), Some(9999), Some(10000),
     Some(49999), Some(50000), Some(50001)}

\* records that differ from ValidRecord in one field
OneFieldVariants ==
    {[ValidRecord EXCEPT !.category = v] : v \in CategoryValues}
    \cup {[ValidRecord EXCEPT !.payment_method = v] : v \in PaymentValues}
    \cup {[ValidRecord EXCEPT !.quantity = v] : v \in QuantityValues}
    \cup {[ValidRecord EXCEPT !.unit_price = v] : v \in AmountValues}
    \cup {[ValidRecord EXCEPT !.total_amount = v] : v \in AmountValues}
    \cup {[ValidRecord EXCEPT !.transaction_date = v] :
            v \in {Some(t) : t \in DateTexts} \cup {Null}}
    \cup {[ValidRecord EXCEPT ![f] = Null] : f \in DOMAIN ValidRecord}

\* records with several missing fields
SparseRecords ==
    {[ValidRecord EXCEPT !.customer_id = Null, !.product_id = Null],
     [ValidRecord EXCEPT !.customer_id = Null, !.product_id = Null,
                         !.quantity = Null],
     [ValidRecord EXCEPT !.transaction_id = Null, !.customer_id = Null,
                         !.product_id = Null, !.quantity = Null,
                         !.unit_price = Null],
     [f \in DOMAIN ValidRecord |-> Null]}

RecordPool == OneFieldVariants \cup SparseRecords

\* records that share transaction ids
OtherCustomer ==
    [ValidRecord EXCEPT !.customer_id = Some("CUST_002"),
                        !.category = Some("Books"),
                        !.total_amount = Some(9999)]

OtherTransaction ==
    [ValidRecord EXCEPT !.transaction_id = Some("TXN_000002"),
                        !.payment_method = Some("cash")]

ZeroQuantity == [ValidRecord EXCEPT !.quantity = Some(0)]

SharingPool == {ValidRecord, OtherCustomer, OtherTransaction, ZeroQuantity}

\* a batch of five: a null customer_id, a quantity of 0, two records that
\* share a transaction id, and a fully valid record
NullCustomer ==
    [ValidRecord EXCEPT !.transaction_id = Some("TXN_000003"),
                        !.customer_id = Null]

ZeroQuantityFour ==
    [ValidRecord EXCEPT !.transaction_id = Some("TXN_000004"),
                        !.quantity = Some(0)]

SharedFirst ==
    [ValidRecord EXCEPT !.transaction_id = Some("TXN_000005"),
                        !.category = Some("Clothing")]

SharedSecond ==
    [ValidRecord EXCEPT !.transaction_id = Some("TXN_000005"),
                        !.category = Some("Home"),
                        !.customer_id = Some("CUST_002")]

BatchOfFive ==
    <<NullCustomer, ZeroQuantityFour, SharedFirst, SharedSecond,
      ValidRecord>>

\* the same batch, the two sharing records dated in the future
BatchOfFiveLate ==
    <<NullCustomer, ZeroQuantityFour,
      [SharedFirst EXCEPT
         !.transaction_date = Some(<<"2", "0", "2", "6", "-", "0", "1", "-", "0", "1", " ", "0",
         "0", ":", "0", "0", ":", "0", "0">>)],
      [SharedSecond EXCEPT
         !.transaction_date = Some(<<"2", "0", "2", "6", "-", "0", "1", "-", "0", "1", " ", "0",
         "0", ":", "0", "0", ":", "0", "0">>)],
      ValidRecord>>

RetailBatches ==
    {<<r>> : r \in RecordPool} \cup BatchesUpTo(SharingPool, MaxBatch)
    \cup {BatchOfFive, BatchOfFiveLate}

\* the column names of the table raw_zone, as its file writes them
RawTransactionId == <<"T", "r", "a", "n", "s", "a", "c", "t", "i", "o", "n", " ",
         "I", "D">>

RawDate == <<"D", "a", "t", "e">>

RawCustomerId == <<" ", "C", "u", "s", "t", "o", "m", "e", "r", " ", "I", "D">>

RawProductCategory == <<"P", "r", "o", "d", "u", "c", "t", " ", "C", "a", "t", "e",
         "g", "o", "r", "y">>

RawQuantity == <<"Q", "u", "a", "n", "t", "i", "t", "y">>

RawPricePerUnit == <<"P", "r", "i", "c", "e", " ", "p", "e", "r", " ", "U", "n",
         "i", "t">>

RawTotalAmount == <<"T", "o", "t", "a", "l", " ", "A", "m", "o", "u", "n", "t",
         " ">>

\* a raw record of the table raw_zone
ScriptRecord(id, on, customer, category, count, price, total) ==
    (RawTransactionId :> id) @@ (RawDate :> on) @@
    (RawCustomerId :> customer) @@ (RawProductCategory :> category) @@
    (RawQuantity :> count) @@ (RawPricePerUnit :> price) @@
    (RawTotalAmount :> total)

FirstId == Some(<<"T", "1">>)

FirstIdPadded == Some(<<" ", "T", "1", " ">>)

SecondId == Some(<<"T", "2">>)

GoodDay == Some(<<"2", "0", "2", "4", "-", "0", "3", "-", "1", "5">>)

ScriptDateValues ==
    {GoodDay, Some(<<" ", "2", "0", "2", "4", "-", "0", "3", "-", "1", "5", " ">>), Some(<<"2", "0", "2", "4", "-", "0", "3", "-", "1", "5", " ", "1",
         "0", ":", "3", "0", ":", "0", "0">>),
     Some(<<"1", "5", "/", "0", "3", "/", "2", "0", "2", "4">>), Some(<<"2", "0", "2", "4", "-", "0", "2", "-", "3", "0">>), Some(<<>>), Null}

ScriptNumberValues ==
    {Some(<<"3">>), Some(<<" ", "1", "5", "0", " ">>), Some(<<"1", "2", ".", "5", "0">>), Some(<<"0">>),
     Some(<<"0", ".", "0">>), Some(<<"-", "5">>), Some(<<"-", "0", ".", "5">>), Some(<<"a", "b", "c">>),
     Some(<<>>), Null}

ScriptValidRecord ==
    ScriptRecord(FirstId, GoodDay, Some(<<"C", "U", "S", "T", "0", "0", "1">>), Some(<<"B", "e", "a", "u", "t", "y">>),
                 Some(<<"3">>), Some(<<"5", "0">>), Some(<<"1", "5", "0">>))

\* records that differ from ScriptValidRecord in one field
ScriptOneFieldVariants ==
    {[ScriptValidRecord EXCEPT ![RawDate] = v] : v \in ScriptDateValues}
    \cup {[ScriptValidRecord EXCEPT ![RawQuantity] = v] :
            v \in ScriptNumberValues}
    \cup {[ScriptValidRecord EXCEPT ![RawPricePerUnit] = v] :
            v \in ScriptNumberValues}
    \cup {[ScriptValidRecord EXCEPT ![RawTotalAmount] = v] :
            v \in ScriptNumberValues}
    \cup {[ScriptValidRecord EXCEPT ![c] = Null] :
            c \in DOMAIN ScriptValidRecord}

\* records that share transaction ids
ScriptSharingPool ==
    {ScriptValidRecord,
     [ScriptValidRecord EXCEPT ![RawTransactionId] = FirstIdPadded,
                               ![RawCustomerId] = Some(<<"C", "U", "S", "T", "0", "0", "2">>)],
     [ScriptValidRecord EXCEPT ![RawQuantity] = Some(<<"0">>)],
     [ScriptValidRecord EXCEPT ![RawTransactionId] = SecondId]}

ScriptBatches ==
    {<<r>> : r \in ScriptOneFieldVariants}
    \cup BatchesUpTo(ScriptSharingPool, MaxBatch)

\* values datetime.now() can return
CurrentDates == {Timestamp(20240701, 120000), Timestamp(20250101, 0)}

\* retail_data_etl.py:139
DataQualityCheck ==
    /\ job = "retail" /\ stage = "data_quality_check"
    /\ df' = [i \in 1..Len(df) |-> QualityCheckRow(df[i])]
    /\ stage' = "clean_and_standardize"
    /\ UNCHANGED <<job, raw, current_date>>
    /\ UNCHANGED nonEtlVars

\* retail_data_etl.py:142.  Spark evaluates the columns when the batch is
\* counted or written (lines 147 and 164); the model evaluates them at the
\* step that defines them, and an exception ends the job there.
CleanAndStandardize ==
    /\ job = "retail" /\ stage = "clean_and_standardize"
    /\ IF \E i \in 1..Len(df) : ToTimestampRaises(df[i].transaction_date)
       THEN df' = df /\ stage' = "failed"
       ELSE /\ df' = [i \in 1..Len(df) |-> CleanRow(df[i])]
            /\ stage' = "filter_valid_data"
    /\ UNCHANGED <<job, raw, current_date>>
    /\ UNCHANGED nonEtlVars

\* retail_data_etl.py:145, with datetime.now() read at line 115
FilterValidData ==
    /\ job = "retail" /\ stage = "filter_valid_data"
    /\ \E today \in CurrentDates :
         /\ current_date' = today
         /\ df' = ValidRows(df, today)
    /\ stage' = "select"
    /\ UNCHANGED <<job, raw>>
    /\ UNCHANGED nonEtlVars

\* retail_data_etl.py:158-173: the projection, and the batch is written
SelectFinalColumns ==
    /\ job = "retail" /\ stage = "select"
    /\ df' = [i \in 1..Len(df) |-> Select(df[i], final_columns)]
    /\ stage' = "written"
    /\ UNCHANGED <<job, raw, current_date>>
    /\ UNCHANGED nonEtlVars

\* job_script.py:26
ScriptSelectTrim ==
    /\ job = "script" /\ stage = "select_trim"
    /\ df' = [i \in 1..Len(df) |-> SelectTrimRow(df[i])]
    /\ stage' = "to_date"
    /\ UNCHANGED <<job, raw, current_date>>
    /\ UNCHANGED nonEtlVars

\* job_script.py:29
ScriptToDate ==
    /\ job = "script" /\ stage = "to_date"
    /\ IF \E i \in 1..Len(df) : ToDateRaises(df[i][date])
       THEN df' = df /\ stage' = "failed"
       ELSE /\ df' = [i \in 1..Len(df) |->
                        WithColumn(df[i], date, ToDate(df[i][date]))]
            /\ stage' = "na_drop"
    /\ UNCHANGED <<job, raw, current_date>>
    /\ UNCHANGED nonEtlVars

\* job_script.py:32
ScriptDropNulls ==
    /\ job = "script" /\ stage = "na_drop"
    /\ df' = RowsWithKeys(df)
    /\ stage' = "fix_values"
    /\ UNCHANGED <<job, raw, current_date>>
    /\ UNCHANGED nonEtlVars

\* job_script.py:35-37
ScriptFixValues ==
    /\ job = "script" /\ stage = "fix_values"
    /\ df' = [i \in 1..Len(df) |-> FixValuesRow(df[i])]
    /\ stage' = "dropDuplicates"
    /\ UNCHANGED <<job, raw, current_date>>
    /\ UNCHANGED nonEtlVars

\* job_script.py:40
ScriptDropDuplicates ==
    /\ job = "script" /\ stage = "dropDuplicates"
    /\ df' \in DropDuplicates(df)
    /\ stage' = "partition_columns"
    /\ UNCHANGED <<job, raw, current_date>>
    /\ UNCHANGED nonEtlVars

\* job_script.py:43-54: the partition columns, and the batch is written
ScriptPartitionColumns ==
    /\ job = "script" /\ stage = "partition_columns"
    /\ df' = [i \in 1..Len(df) |-> PartitionColumnsRow(df[i])]
    /\ stage' = "written"
    /\ UNCHANGED <<job, raw, current_date>>
    /\ UNCHANGED nonEtlVars

(***************************************************************************)
(* AI query processor: ai_query_processor.py                               *)
(* Texts are sequences of characters; None is Null and a text t is         *)
(* Some(t).  In the templates a run of white space is written as one space.*)
(***************************************************************************)
\* str.lower()
Lower(t) == [i \in 1..Len(t) |-> LowerCharacter(t[i])]

\* pattern in text
Contains(t, pattern) ==
    \E i \in 0..(Len(t) - Len(pattern)) :
      SubSeq(t, i + 1, i + Len(pattern)) = pattern

\* str(n) for a count
RECURSIVE DecimalText(_)
DecimalText(n) ==
    LET last == <<"0", "1", "2", "3", "4", "5", "6", "7", "8", "9">>[(n % 10) + 1]
    IN  IF n < 10 THEN <<last>> ELSE DecimalText(n \div 10) \o <<last>>

\* the keywords of ai_query_processor.py:105, 115, 125
SalesKeyword ==
    <<"s", "a", "l", "e", "s">>

ByCategoryKeyword ==
    <<"b", "y", " ", "c", "a", "t", "e", "g", "o", "r", "y">>

TopProductsKeyword ==
    <<"t", "o", "p", " ", "p", "r", "o", "d", "u", "c", "t", "s">>

MonthlyRevenueKeyword ==
    <<"m", "o", "n", "t", "h", "l", "y", " ", "r", "e", "v", "e", "n",
      "u", "e">>

\* ai_query_processor.py:106-114
CategorySalesQuery ==
    <<" ", "S", "E", "L", "E", "C", "T", " ", "c", "a", "t", "e", "g",
      "o", "r", "y", ",", " ", "S", "U", "M", "(", "t", "o", "t", "a",
      "l", "_", "a", "m", "o", "u", "n", "t", ")", " ", "a", "s", " ",
      "t", "o", "t", "a", "l", "_", "s", "a", "l", "e", "s", ",", " ",
      "C", "O", "U", "N", "T", "(", "*", ")", " ", "a", "s", " ", "t",
      "r", "a", "n", "s", "a", "c", "t", "i", "o", "n", "_", "c", "o",
      "u", "n", "t", " ", "F", "R", "O", "M", " ", "c", "l", "e", "a",
      "n", "e", "d", "_", "s", "a", "l", "e", "s", "_", "d", "a", "t",
      "a", " ", "G", "R", "O", "U", "P", " ", "B", "Y", " ", "c", "a",
      "t", "e", "g", "o", "r", "y", " ", "O", "R", "D", "E", "R", " ",
      "B", "Y", " ", "t", "o", "t", "a", "l", "_", "s", "a", "l", "e",
      "s", " ", "D", "E", "S", "C", " ", "L", "I", "M", "I", "T", " ",
      "1", "0", " ">>

\* ai_query_processor.py:116-124
TopProductsQuery ==
    <<" ", "S", "E", "L", "E", "C", "T", " ", "p", "r", "o", "d", "u",
      "c", "t", "_", "n", "a", "m", "e", ",", " ", "S", "U", "M", "(",
      "t", "o", "t", "a", "l", "_", "a", "m", "o", "u", "n", "t", ")",
      " ", "a", "s", " ", "t", "o", "t", "a", "l", "_", "r", "e", "v",
      "e", "n", "u", "e", ",", " ", "S", "U", "M", "(", "q", "u", "a",
      "n", "t", "i", "t", "y", ")", " ", "a", "s", " ", "t", "o", "t",
      "a", "l", "_", "s", "o", "l", "d", " ", "F", "R", "O", "M", " ",
      "c", "l", "e", "a", "n", "e", "d", "_", "s", "a", "l", "e", "s",
      "_", "d", "a", "t", "a", " ", "G", "R", "O", "U", "P", " ", "B",
      "Y", " ", "p", "r", "o", "d", "u", "c", "t", "_", "n", "a", "m",
      "e", " ", "O", "R", "D", "E", "R", " ", "B", "Y", " ", "t", "o",
      "t", "a", "l", "_", "r", "e", "v", "e", "n", "u", "e", " ", "D",
      "E", "S", "C", " ", "L", "I", "M", "I", "T", " ", "1", "0", " ">>

\* ai_query_processor.py:126-133
MonthlyRevenueQuery ==
    <<" ", "S", "E", "L", "E", "C", "T", " ", "y", "e", "a", "r", ",",
      " ", "m", "o", "n", "t", "h", ",", " ", "S", "U", "M", "(", "t",
      "o", "t", "a", "l", "_", "a", "m", "o", "u", "n", "t", ")", " ",
      "a", "s", " ", "m", "o", "n", "t", "h", "l", "y", "_", "r", "e",
      "v", "e", "n", "u", "e", " ", "F", "R", "O", "M", " ", "c", "l",
      "e", "a", "n", "e", "d", "_", "s", "a", "l", "e", "s", "_", "d",
      "a", "t", "a", " ", "G", "R", "O", "U", "P", " ", "B", "Y", " ",
      "y", "e", "a", "r", ",", " ", "m", "o", "n", "t", "h", " ", "O",
      "R", "D", "E", "R", " ", "B", "Y", " ", "y", "e", "a", "r", " ",
      "D", "E", "S", "C", ",", " ", "m", "o", "n", "t", "h", " ", "D",
      "E", "S", "C", " ", "L", "I", "M", "I", "T", " ", "1", "2", " ">>

\* ai_query_processor.py:135-140
OverallTotalsQuery ==
    <<" ", "S", "E", "L", "E", "C", "T", " ", "C", "O", "U", "N", "T",
      "(", "*", ")", " ", "a", "s", " ", "t", "o", "t", "a", "l", "_",
      "t", "r", "a", "n", "s", "a", "c", "t", "i", "o", "n", "s", ",",
      " ", "S", "U", "M", "(", "t", "o", "t", "a", "l", "_", "a", "m",
      "o", "u", "n", "t", ")", " ", "a", "s", " ", "t", "o", "t", "a",
      "l", "_", "r", "e", "v", "e", "n", "u", "e", ",", " ", "A", "V",
      "G", "(", "t", "o", "t", "a", "l", "_", "a", "m", "o", "u", "n",
      "t", ")", " ", "a", "s", " ", "a", "v", "g", "_", "t", "r", "a",
      "n", "s", "a", "c", "t", "i", "o", "n", "_", "v", "a", "l", "u",
      "e", " ", "F", "R", "O", "M", " ", "c", "l", "e", "a", "n", "e",
      "d", "_", "s", "a", "l", "e", "s", "_", "d", "a", "t", "a", " ">>

\* the function with the rule for top products tried first
TopProductsFirstQuery(text) ==
    IF Contains(Lower(text), TopProductsKeyword) THEN TopProductsQuery
    ELSE IF Contains(Lower(text), SalesKeyword)
            /\ Contains(Lower(text), ByCategoryKeyword)
    THEN CategorySalesQuery
    ELSE IF Contains(Lower(text), MonthlyRevenueKeyword)
    THEN MonthlyRevenueQuery
    ELSE OverallTotalsQuery

\* ai_query_processor.py:99-140, for a request that is a text
_template_based_query_generation(text) ==
    IF Contains(Lower(text), SalesKeyword)
       /\ Contains(Lower(text), ByCategoryKeyword)
    THEN CategorySalesQuery
    ELSE IF Contains(Lower(text), TopProductsKeyword)
    THEN TopProductsQuery
    ELSE IF Contains(Lower(text), MonthlyRevenueKeyword)
    THEN MonthlyRevenueQuery
    ELSE OverallTotalsQuery

\* ai_query_processor.py:103: None has no method lower
TemplateQueryRaises(request) == IsNull(request)

\* str(row) of a result row, a dictionary held as its (key, value) pairs
RECURSIVE StrOfPairs(_)
StrOfPairs(row) ==
    IF row = <<>> THEN <<>>
    ELSE <<"'">> \o row[1][1] \o <<"'", ":", " ", "'">> \o row[1][2]
         \o <<"'">>
         \o (IF Len(row) > 1 THEN <<",", " ">> ELSE <<>>)
         \o StrOfPairs(Tail(row))

StrOfRow(row) == <<"{">> \o StrOfPairs(row) \o <<"}">>

CategoryKeyword ==
    <<"c", "a", "t", "e", "g", "o", "r", "y">>

ProductKeyword ==
    <<"p", "r", "o", "d", "u", "c", "t">>

\* ai_query_processor.py:248
NoDataMatching ==
    <<"N", "o", " ", "d", "a", "t", "a", " ", "f", "o", "u", "n", "d",
      " ", "m", "a", "t", "c", "h", "i", "n", "g", " ", "y", "o", "u",
      "r", " ", "c", "r", "i", "t", "e", "r", "i", "a", ".">>

\* ai_query_processor.py:146
NoDataFound ==
    <<"N", "o", " ", "d", "a", "t", "a", " ", "f", "o", "u", "n", "d",
      " ", "f", "o", "r", " ", "t", "h", "e", " ", "s", "p", "e", "c",
      "i", "f", "i", "e", "d", " ", "c", "r", "i", "t", "e", "r", "i",
      "a", ".">>

\* ai_query_processor.py:252-257
CategorySummary(record_count) ==
    <<" ", "A", "n", "a", "l", "y", "s", "i", "s", " ", "S", "u", "m",
      "m", "a", "r", "y", ":", " ", "-", " ", "F", "o", "u", "n", "d",
      " ">>
    \o DecimalText(record_count) \o
    <<" ", "c", "a", "t", "e", "g", "o", "r", "i", "e", "s", " ", "i",
      "n", " ", "t", "h", "e", " ", "r", "e", "s", "u", "l", "t", "s",
      " ", "-", " ", "D", "a", "t", "a", " ", "i", "n", "c", "l", "u",
      "d", "e", "s", " ", "s", "a", "l", "e", "s", " ", "p", "e", "r",
      "f", "o", "r", "m", "a", "n", "c", "e", " ", "a", "c", "r", "o",
      "s", "s", " ", "d", "i", "f", "f", "e", "r", "e", "n", "t", " ",
      "p", "r", "o", "d", "u", "c", "t", " ", "c", "a", "t", "e", "g",
      "o", "r", "i", "e", "s", " ", "-", " ", "C", "o", "n", "s", "i",
      "d", "e", "r", " ", "f", "o", "c", "u", "s", "i", "n", "g", " ",
      "o", "n", " ", "t", "o", "p", "-", "p", "e", "r", "f", "o", "r",
      "m", "i", "n", "g", " ", "c", "a", "t", "e", "g", "o", "r", "i",
      "e", "s", " ", "f", "o", "r", " ", "b", "u", "s", "i", "n", "e",
      "s", "s", " ", "g", "r", "o", "w", "t", "h", " ">>

\* ai_query_processor.py:259-264
ProductSummary(record_count) ==
    <<" ", "P", "r", "o", "d", "u", "c", "t", " ", "A", "n", "a", "l",
      "y", "s", "i", "s", " ", "S", "u", "m", "m", "a", "r", "y", ":",
      " ", "-", " ", "A", "n", "a", "l", "y", "z", "e", "d", " ">>
    \o DecimalText(record_count) \o
    <<" ", "p", "r", "o", "d", "u", "c", "t", "s", " ", "-", " ", "R",
      "e", "s", "u", "l", "t", "s", " ", "s", "h", "o", "w", " ", "p",
      "r", "o", "d", "u", "c", "t", " ", "p", "e", "r", "f", "o", "r",
      "m", "a", "n", "c", "e", " ", "m", "e", "t", "r", "i", "c", "s",
      " ", "-", " ", "R", "e", "c", "o", "m", "m", "e", "n", "d", " ",
      "f", "o", "c", "u", "s", "i", "n", "g", " ", "o", "n", " ", "h",
      "i", "g", "h", "-", "r", "e", "v", "e", "n", "u", "e", " ", "p",
      "r", "o", "d", "u", "c", "t", "s", " ", "f", "o", "r", " ", "i",
      "n", "v", "e", "n", "t", "o", "r", "y", " ", "o", "p", "t", "i",
      "m", "i", "z", "a", "t", "i", "o", "n", " ">>

\* ai_query_processor.py:266-271
RecordsSummary(record_count) ==
    <<" ", "D", "a", "t", "a", " ", "A", "n", "a", "l", "y", "s", "i",
      "s", " ", "S", "u", "m", "m", "a", "r", "y", ":", " ", "-", " ",
      "R", "e", "t", "r", "i", "e", "v", "e", "d", " ">>
    \o DecimalText(record_count) \o
    <<" ", "r", "e", "c", "o", "r", "d", "s", " ", "-", " ", "A", "n",
      "a", "l", "y", "s", "i", "s", " ", "c", "o", "m", "p", "l", "e",
      "t", "e", "d", " ", "s", "u", "c", "c", "e", "s", "s", "f", "u",
      "l", "l", "y", " ", "-", " ", "R", "e", "v", "i", "e", "w", " ",
      "t", "h", "e", " ", "d", "e", "t", "a", "i", "l", "e", "d", " ",
      "r", "e", "s", "u", "l", "t", "s", " ", "f", "o", "r", " ", "s",
      "p", "e", "c", "i", "f", "i", "c", " ", "i", "n", "s", "i", "g",
      "h", "t", "s", " ">>

\* ai_query_processor.py:242-272
_template_based_summary(rows) ==
    IF Len(rows) = 0 THEN NoDataMatching
    ELSE IF Contains(Lower(StrOfRow(rows[1])), CategoryKeyword)
    THEN CategorySummary(Len(rows))
    ELSE IF Contains(Lower(StrOfRow(rows[1])), ProductKeyword)
    THEN ProductSummary(Len(rows))
    ELSE RecordsSummary(Len(rows))

\* str.strip() of the text a model returned
Strip(t) == Trim(t)

\* ai_query_processor.py:287-303, 311-319, 321-325, 327-334: the responses;
\* a field the body does not carry is Null
SqlResponse(sql, request) ==
    [statusCode |-> 200, sql_query |-> Some(sql), summary |-> Null,
     user_request |-> request, record_count |-> Null, error |-> Null]

SummaryResponse(text, request, rows) ==
    [statusCode |-> 200, sql_query |-> Null, summary |-> Some(text),
     user_request |-> request, record_count |-> Some(Len(rows)),
     error |-> Null]

InvalidOperationResponse ==
    [statusCode |-> 400, sql_query |-> Null, summary |-> Null,
     user_request |-> Null, record_count |-> Null,
     error |-> Some("Invalid operation")]

ErrorResponse(message) ==
    [statusCode |-> 500, sql_query |-> Null, summary |-> Null,
     user_request |-> Null, record_count |-> Null, error |-> Some(message)]

\* no response yet
NoAiResponse ==
    [statusCode |-> 0, sql_query |-> Null, summary |-> Null,
     user_request |-> Null, record_count |-> Null, error |-> Null]

\* ---- input domains ----
SalesByCategoryRequest ==
    <<"S", "h", "o", "w", " ", "S", "a", "l", "e", "s", " ", "b", "y",
      " ", "C", "a", "t", "e", "g", "o", "r", "y">>

SalesAndTopProductsRequest ==
    <<"s", "a", "l", "e", "s", " ", "b", "y", " ", "c", "a", "t", "e",
      "g", "o", "r", "y", " ", "a", "n", "d", " ", "t", "o", "p", " ",
      "p", "r", "o", "d", "u", "c", "t", "s">>

TopProductsByCategorySalesRequest ==
    <<"t", "o", "p", " ", "p", "r", "o", "d", "u", "c", "t", "s", " ",
      "b", "y", " ", "c", "a", "t", "e", "g", "o", "r", "y", " ", "s",
      "a", "l", "e", "s">>

TopProductsRequest ==
    <<"T", "O", "P", " ", "P", "R", "O", "D", "U", "C", "T", "S">>

MonthlyTopProductsRequest ==
    <<"m", "o", "n", "t", "h", "l", "y", " ", "r", "e", "v", "e", "n",
      "u", "e", " ", "o", "f", " ", "t", "o", "p", " ", "p", "r", "o",
      "d", "u", "c", "t", "s">>

MonthlyRevenueRequest ==
    <<"M", "o", "n", "t", "h", "l", "y", " ", "R", "e", "v", "e", "n",
      "u", "e">>

SalesOnlyRequest ==
    <<"s", "a", "l", "e", "s">>

OtherRequest ==
    <<"h", "e", "l", "l", "o">>

RequestTexts ==
    {SalesByCategoryRequest, SalesAndTopProductsRequest,
     TopProductsByCategorySalesRequest, TopProductsRequest,
     MonthlyTopProductsRequest, MonthlyRevenueRequest, SalesOnlyRequest,
     OtherRequest, <<>>}

CategoryRow ==
    << <<CategoryKeyword, <<"T", "o", "y", "s">> >>,
       << <<"t", "o", "t", "a", "l">>, <<"9">> >> >>

ProductRow ==
    << << <<"P", "r", "o", "d", "u", "c", "t", "_", "n", "a", "m", "e">>,
          <<"L", "a", "m", "p">> >> >>

ProductOfCategoryRow == ProductRow \o CategoryRow

TotalsRow == << << <<"t", "o", "t", "a", "l">>, <<"9">> >> >>

ResultLists ==
    {<<>>, <<CategoryRow>>, <<ProductRow>>, <<TotalsRow>>,
     <<TotalsRow, CategoryRow>>, <<ProductOfCategoryRow, ProductRow>>,
     <<ProductRow, TotalsRow, TotalsRow>>}

\* what a model answers when it answers
ModelOutputs ==
    {<<" ", "S", "E", "L", "E", "C", "T", " ", "1", " ">>, <<"o", "k">>,
     <<>>}

Operations == {"generate_sql", "summarize_results", "delete_table", None}

\* the event: a key it does not carry is Null
AiEvents ==
    [operation : Operations,
     user_request : {Null} \cup {Some(t) : t \in RequestTexts},
     query_results : {Null} \cup {Some(r) : r \in ResultLists}]

\* ---- the handler ----
\* ai_query_processor.py:278-287, 305-309, 321-325
AiLambdaHandler ==
    /\ ai_pc = "lambda_handler"
    /\ IF ai_event.operation = "generate_sql"
       THEN /\ user_request' = ai_event.user_request
            /\ ai_pc' = "natural_language_to_sql"
            /\ UNCHANGED <<query_results, ai_response>>
       ELSE IF ai_event.operation = "summarize_results"
       THEN LET rows == IF IsNull(ai_event.query_results) THEN <<>>
                        ELSE Val(ai_event.query_results)
                request == IF IsNull(ai_event.user_request) THEN Some(<<>>)
                           ELSE ai_event.user_request
            IN  /\ user_request' = request
                /\ query_results' = rows
                /\ IF rows = <<>>
                   THEN /\ ai_pc' = "done"
                        /\ ai_response' =
                             SummaryResponse(NoDataFound, request, rows)
                   ELSE /\ ai_pc' = "summarize_query_results"
                        /\ UNCHANGED ai_response
       ELSE /\ ai_pc' = "done"
            /\ ai_response' = InvalidOperationResponse
            /\ UNCHANGED <<user_request, query_results>>
    /\ UNCHANGED <<ai_event, openai_api_key, ai_calls>>
    /\ UNCHANGED nonAiVars

\* what the handler returns when a model answered with the text content
ModelAnswer(content) ==
    IF ai_pc \in {"natural_language_to_sql", "_generate_sql_with_bedrock"}
    THEN SqlResponse(Strip(content), user_request)
    ELSE SummaryResponse(Strip(content), user_request, query_results)

\* ai_query_processor.py:44-54, 171-182: the call either answers or raises
AiOpenAiCall ==
    /\ ai_pc \in {"natural_language_to_sql", "summarize_query_results"}
    /\ openai_api_key
    /\ ai_calls' = Append(ai_calls, "openai")
    /\ \/ \E content \in ModelOutputs :
            /\ ai_response' = ModelAnswer(content)
            /\ ai_pc' = "done"
       \/ /\ ai_pc' = IF ai_pc = "natural_language_to_sql"
                      THEN "except_sql" ELSE "except_summary"
          /\ UNCHANGED ai_response
    /\ UNCHANGED <<ai_event, openai_api_key, user_request, query_results>>
    /\ UNCHANGED nonAiVars

\* ai_query_processor.py:55-57, 183-184
AiUseBedrock ==
    /\ ai_pc \in {"natural_language_to_sql", "summarize_query_results"}
    /\ ~openai_api_key
    /\ ai_pc' = IF ai_pc = "natural_language_to_sql"
                THEN "_generate_sql_with_bedrock"
                ELSE "_generate_summary_with_bedrock"
    /\ UNCHANGED <<ai_event, openai_api_key, user_request, query_results,
                   ai_calls, ai_response>>
    /\ UNCHANGED nonAiVars

\* ai_query_processor.py:77-94, 200-217
AiBedrockCall ==
    /\ ai_pc \in {"_generate_sql_with_bedrock",
                  "_generate_summary_with_bedrock"}
    /\ ai_calls' = Append(ai_calls, "bedrock")
    /\ \/ \E content \in ModelOutputs :
            /\ ai_response' = ModelAnswer(content)
            /\ ai_pc' = "done"
       \/ /\ ai_pc' = IF ai_pc = "_generate_sql_with_bedrock"
                      THEN "bedrock_except_sql"
                      ELSE "bedrock_except_summary"
          /\ UNCHANGED ai_response
    /\ UNCHANGED <<ai_event, openai_api_key, user_request, query_results>>
    /\ UNCHANGED nonAiVars

\* ai_query_processor.py:96-97: the handler of _generate_sql_with_bedrock;
\* what the template raises leaves through natural_language_to_sql's try
AiBedrockExceptSql ==
    /\ ai_pc = "bedrock_except_sql"
    /\ ai_calls' = Append(ai_calls, "_template_based_query_generation")
    /\ IF TemplateQueryRaises(user_request)
       THEN ai_pc' = "except_sql" /\ UNCHANGED ai_response
       ELSE /\ ai_pc' = "done"
            /\ ai_response' =
                 SqlResponse(_template_based_query_generation(
                               Val(user_request)), user_request)
    /\ UNCHANGED <<ai_event, openai_api_key, user_request, query_results>>
    /\ UNCHANGED nonAiVars

\* ai_query_processor.py:219-220: query_results is no name of this
\* function nor of the module, the call raises NameError before the
\* template runs, and the error leaves through summarize_query_results' try
AiBedrockExceptSummary ==
    /\ ai_pc = "bedrock_except_summary"
    /\ ai_pc' = "except_summary"
    /\ UNCHANGED <<ai_event, openai_api_key, user_request, query_results,
                   ai_calls, ai_response>>
    /\ UNCHANGED nonAiVars

\* ai_query_processor.py:59-61 and 327-334: the template's own error is
\* caught by lambda_handler
AiExceptSql ==
    /\ ai_pc = "except_sql"
    /\ ai_calls' = Append(ai_calls, "_template_based_query_generation")
    /\ ai_pc' = "done"
    /\ ai_response' =
         IF TemplateQueryRaises(user_request)
         THEN ErrorResponse("'NoneType' object has no attribute 'lower'")
         ELSE SqlResponse(_template_based_query_generation(
                            Val(user_request)), user_request)
    /\ UNCHANGED <<ai_event, openai_api_key, user_request, query_results>>
    /\ UNCHANGED nonAiVars

\* ai_query_processor.py:185-186
AiExceptSummary ==
    /\ ai_pc = "except_summary"
    /\ ai_calls' = Append(ai_calls, "_template_based_summary")
    /\ ai_pc' = "done"
    /\ ai_response' = SummaryResponse(_template_based_summary(query_results),
                                      user_request, query_results)
    /\ UNCHANGED <<ai_event, openai_api_key, user_request, query_results>>
    /\ UNCHANGED nonAiVars

(***************************************************************************)
(* Concurrent invocations of the runner (lambda_function.py).  Every       *)
(* invocation runs lambda_handler with its own event and its own local     *)
(* variables; athena_client (line 17) holds no state of a query.  A call   *)
(* of the client is a request the service answers later.                   *)
(***************************************************************************)
Invocations == 1..NumInvocations

\* the ids the service issues, in the order of the submissions
ExecutionIds == <<"exec-1", "exec-2", "exec-3", "exec-4">>

\* the execution the service holds under an id
ExecutionOf(id) ==
    executions[CHOOSE k \in 1..Len(executions) : ExecutionIds[k] = id]

\* the id of the latest submission of any invocation
LatestIssuedId(i) == ExecutionIds[Len(executions)]

\* lambda_function.py:55: query_execution_id is a local variable of the call
OwnId(i) == invocations[i].query_execution_id

Request(i, op, id) == [from |-> i, op |-> op, id |-> id]

\* what the service holds as the result of a query text
ResultsOfQuery(q) ==
    [columns |-> <<"query">>, rows |-> <<<<q>>>>, row_count |-> 1,
     error |-> None]

\* lambda_function.py:173-180
ResultsError(msg) == [RunnerNoResults EXCEPT !.error = msg]

ConcResponse(r) == [r EXCEPT !.results = RunnerNoResults]

\* the query text of an invocation's event, one text per invocation
QueryTexts == <<"SELECT 1", "SELECT 2", "SELECT 3", "SELECT 4">>

\* the events of invocation i: with its query text or without sql_query
ConcEvents(i) ==
    [query_type : {None}, custom_query : {None},
     sql_query : {None, QueryTexts[i]}, database : {"db"},
     output_location : {"s3://out/"}]

NewInvocation(ev) ==
    [event |-> ev, pc |-> "start", query_execution_id |-> None,
     elapsed_time |-> 0, status |-> None,
     response |-> ConcResponse(NoResponse)]

\* the query texts whose execution may take longer than any deadline
LongQueries == {QueryTexts[1]}

\* lambda_function.py:33-53: validation, then the submission is sent
ConcStart(i) ==
    /\ invocations[i].pc = "start"
    /\ IF ~RunnerValid(invocations[i].event)
       THEN /\ invocations' =
                 [invocations EXCEPT
                    ![i].pc = "done",
                    ![i].response = ConcResponse(RunnerExceptionResponse(
                      "Missing required parameters: sql_query, database, output_location"))]
            /\ UNCHANGED requests
       ELSE /\ invocations' = [invocations EXCEPT ![i].pc = "submitting"]
            /\ requests' = requests \cup
                             {Request(i, "start_query_execution", None)}
    /\ UNCHANGED executions
    /\ UNCHANGED nonConcVars

\* lambda_function.py:48-61: the service answers the submission with a new
\* id, or the call raises
ConcSubmitted(i) ==
    /\ invocations[i].pc = "submitting"
    /\ Request(i, "start_query_execution", None) \in requests
    /\ requests' = requests \ {Request(i, "start_query_execution", None)}
    /\ \/ /\ invocations' =
               [invocations EXCEPT
                  ![i].pc = "done",
                  ![i].response =
                     ConcResponse(RunnerExceptionResponse(ServiceError))]
          /\ UNCHANGED executions
       \/ /\ executions' =
               Append(executions,
                      [owner |-> i, query |-> invocations[i].event.sql_query,
                       state |-> "QUEUED", reason |-> None,
                       answered |-> 0, stuck |-> FALSE])
          /\ invocations' =
               [invocations EXCEPT
                  ![i].pc = "loop",
                  ![i].query_execution_id = ExecutionIds[Len(executions) + 1],
                  ![i].elapsed_time = 0]
    /\ UNCHANGED nonConcVars

\* lambda_function.py:63-66: the loop condition holds, the poll is sent
ConcPoll(i) ==
    /\ invocations[i].pc = "loop"
    /\ RunnerLoopGuard(invocations[i].elapsed_time)
    /\ invocations' = [invocations EXCEPT ![i].pc = "polling"]
    /\ requests' = requests \cup
                     {Request(i, "get_query_execution", OwnId(i))}
    /\ UNCHANGED executions
    /\ UNCHANGED nonConcVars

\* lambda_function.py:110-119: the loop condition fails
ConcTimeout(i) ==
    /\ invocations[i].pc = "loop"
    /\ ~RunnerLoopGuard(invocations[i].elapsed_time)
    /\ invocations' =
         [invocations EXCEPT
            ![i].pc = "done",
            ![i].response = ConcResponse(RunnerTimeoutResponse(OwnId(i)))]
    /\ UNCHANGED <<executions, requests>>
    /\ UNCHANGED nonConcVars

\* The service answers a status request for the execution e: RUNNING, at
\* most MaxRunningAnswers times unless the execution is that of a long
\* query and never ends
MayAnswerRunning(e) ==
    /\ e.state \in {"QUEUED", "RUNNING"}
    /\ \/ e.stuck
       \/ e.answered < MaxRunningAnswers
       \/ e.query \in LongQueries

AnswerRunning(e) ==
    IF e.stuck THEN e
    ELSE IF e.answered < MaxRunningAnswers
    THEN [e EXCEPT !.state = "RUNNING", !.answered = @ + 1]
    ELSE [e EXCEPT !.state = "RUNNING", !.stuck = TRUE]

\* or a final state, the one it has answered before if there is one
MayAnswerFinal(e, st, why) ==
    /\ ~e.stuck
    /\ e.state \in {"QUEUED", "RUNNING"} \/ (e.state = st /\ e.reason = why)
    /\ st \notin {"FAILED", "CANCELLED"} => why = None

AnswerFinal(e, st, why) == [e EXCEPT !.state = st, !.reason = why]

\* lambda_function.py:64-108: the service answers the poll (or the call
\* raises) and the handler acts on the state: it asks for the results,
\* returns the failure, or sleeps and counts the interval
ConcStatusAnswered(i) ==
    /\ invocations[i].pc = "polling"
    /\ \E r \in requests :
         /\ r.from = i /\ r.op = "get_query_execution"
         /\ LET k == CHOOSE k \in 1..Len(executions) : ExecutionIds[k] = r.id
                e == executions[k]
            IN  \/ /\ invocations' =
                        [invocations EXCEPT
                           ![i].pc = "done",
                           ![i].response = ConcResponse(
                              RunnerExceptionResponse(ServiceError))]
                   /\ UNCHANGED executions
                \/ /\ MayAnswerRunning(e)
                   /\ executions' = [executions EXCEPT ![k] = AnswerRunning(e)]
                   /\ invocations' =
                        [invocations EXCEPT
                           ![i].pc = "loop",
                           ![i].status = "RUNNING",
                           ![i].elapsed_time = @ + wait_interval]
                \/ \E st \in {"SUCCEEDED", "FAILED", "CANCELLED"},
                      why \in Reasons :
                     /\ MayAnswerFinal(e, st, why)
                     /\ executions' =
                          [executions EXCEPT ![k] = AnswerFinal(e, st, why)]
                     /\ invocations' =
                          [invocations EXCEPT
                             ![i].status = st,
                             ![i].pc = IF st = "SUCCEEDED" THEN "fetching"
                                       ELSE "done",
                             ![i].response =
                                IF st = "SUCCEEDED" THEN @
                                ELSE ConcResponse(
                                       RunnerFailedResponse(OwnId(i), why))]
         /\ requests' =
              (requests \ {r}) \cup
              (IF invocations'[i].pc = "fetching"
               THEN {Request(i, "get_query_results", OwnId(i))} ELSE {})
    /\ UNCHANGED nonConcVars

\* lambda_function.py:82-92, 131-180: the service answers with the results
\* of the execution asked for, or the call raises and get_query_results
\* returns its record of the error
ConcResultsAnswered(i) ==
    /\ invocations[i].pc = "fetching"
    /\ \E r \in requests :
         /\ r.from = i /\ r.op = "get_query_results"
         /\ requests' = requests \ {r}
         /\ \E res \in {ResultsOfQuery(ExecutionOf(r.id).query),
                        ResultsError(ServiceError)} :
              invocations' =
                [invocations EXCEPT
                   ![i].pc = "done",
                   ![i].response =
                      RunnerSuccessResponse(OwnId(i), invocations[i].status,
                                            res)]
    /\ UNCHANGED executions
    /\ UNCHANGED nonConcVars

(***************************************************************************)
(* Specification                                                           *)
(***************************************************************************)
RunnerEvents ==
    [query_type : {None}, custom_query : {None},
     sql_query : ParamValues, database : ParamValues,
     output_location : ParamValues]

ExecutorEvents ==
    {e \in [query_type : QueryTypes, custom_query : ParamValues,
            sql_query : {None}, database : {None},
            output_location : {None}] :
       e.query_type # "custom" => e.custom_query = None}

\* no ETL script runs during a query invocation
EtlIdle ==
    /\ job = None
    /\ stage = "idle"
    /\ raw = <<>>
    /\ df = <<>>
    /\ current_date = None

\* the AI query processor is not invoked
AiIdle ==
    /\ ai_event = [operation |-> None, user_request |-> Null,
                   query_results |-> Null]
    /\ openai_api_key = FALSE
    /\ ai_pc = "idle"
    /\ user_request = Null
    /\ query_results = <<>>
    /\ ai_calls = <<>>
    /\ ai_response = NoAiResponse

\* no concurrent invocations of the runner
ConcIdle ==
    /\ invocations = <<>>
    /\ executions = <<>>
    /\ requests = {}

Init ==
    /\ EtlIdle
    /\ AiIdle
    /\ ConcIdle
    /\ entry \in {"runner", "executor"}
    /\ event \in IF entry = "runner" THEN RunnerEvents ELSE ExecutorEvents
    /\ pc = "start"
    /\ latency \in Latencies
    /\ now = 0
    /\ start_time = 0
    /\ elapsed_time = 0
    /\ query_execution_id = None
    /\ execution_id = None
    /\ status = None
    /\ table \in TableNames
    /\ pages = <<>>
    /\ total_items = 0
    /\ first_page = TRUE
    /\ next_token = None
    /\ columns = <<>>
    /\ results = NoResults
    /\ calls = <<>>
    /\ svc = [issued |-> None, state |-> None, reason |-> None]
    /\ raised = None
    /\ response = NoResponse

RunnerNext ==
    \/ RunnerStart
    \/ RunnerPoll
    \/ RunnerSleep
    \/ RunnerTimeout
    \/ RunnerFetchPage

ExecutorNext ==
    \/ ExecutorStart
    \/ ExecutorPoll
    \/ ExecutorSleep
    \/ ExecutorTimeout
    \/ ExecutorGetError
    \/ ExecutorFetchPage

Next == RunnerNext \/ ExecutorNext

Spec == Init /\ [][Next]_vars

\* Invocations of the executor with a custom query, for the question whether
\* execute_query returns: the Python interpreter runs the handler on, so
\* every step that can be taken is eventually taken.
FairInit == Init /\ entry = "executor" /\ event.query_type = "custom"

FairSpec == FairInit /\ [][ExecutorNext]_vars /\ WF_vars(ExecutorNext)

\* no query invocation runs during an ETL job
QueryIdle ==
    /\ entry = None
    /\ event = [query_type |-> None, custom_query |-> None,
                sql_query |-> None, database |-> None,
                output_location |-> None]
    /\ pc = "idle"
    /\ latency = 0
    /\ now = 0
    /\ start_time = 0
    /\ elapsed_time = 0
    /\ query_execution_id = None
    /\ execution_id = None
    /\ status = None
    /\ table = "plain"
    /\ pages = <<>>
    /\ total_items = 0
    /\ first_page = TRUE
    /\ next_token = None
    /\ columns = <<>>
    /\ results = <<>>
    /\ calls = <<>>
    /\ svc = [issued |-> None, state |-> None, reason |-> None]
    /\ raised = None
    /\ response = NoResponse

\* One run of an ETL script on a batch read from the catalog
\* (retail_data_etl.py:128-136, job_script.py:17-23).
EtlInit ==
    /\ QueryIdle
    /\ AiIdle
    /\ ConcIdle
    /\ job \in {"retail", "script"}
    /\ raw \in IF job = "retail" THEN RetailBatches ELSE ScriptBatches
    /\ df = raw
    /\ stage = IF job = "retail" THEN "data_quality_check" ELSE "select_trim"
    /\ current_date = None

RetailNext ==
    \/ DataQualityCheck
    \/ CleanAndStandardize
    \/ FilterValidData
    \/ SelectFinalColumns

ScriptNext ==
    \/ ScriptSelectTrim
    \/ ScriptToDate
    \/ ScriptDropNulls
    \/ ScriptFixValues
    \/ ScriptDropDuplicates
    \/ ScriptPartitionColumns

EtlNext == RetailNext \/ ScriptNext

EtlSpec == EtlInit /\ [][EtlNext]_vars

\* One invocation of the AI query processor (ai_query_processor.py:274-334);
\* the key is the environment variable OPENAI_API_KEY (line 15).
AiInit ==
    /\ QueryIdle
    /\ EtlIdle
    /\ ConcIdle
    /\ ai_event \in AiEvents
    /\ openai_api_key \in BOOLEAN
    /\ ai_pc = "lambda_handler"
    /\ user_request = Null
    /\ query_results = <<>>
    /\ ai_calls = <<>>
    /\ ai_response = NoAiResponse

AiNext ==
    \/ AiLambdaHandler
    \/ AiOpenAiCall
    \/ AiUseBedrock
    \/ AiBedrockCall
    \/ AiBedrockExceptSql
    \/ AiBedrockExceptSummary
    \/ AiExceptSql
    \/ AiExceptSummary

AiSpec == AiInit /\ [][AiNext]_vars

\* NumInvocations invocations of the runner at the same service, each with
\* its own event.
ConcInit ==
    /\ QueryIdle
    /\ EtlIdle
    /\ AiIdle
    /\ invocations \in
         {[i \in Invocations |-> NewInvocation(evs[i])] :
            evs \in {f \in [Invocations -> UNION {ConcEvents(i) :
                                                       i \in Invocations}] :
                       \A i \in Invocations : f[i] \in ConcEvents(i)}}
    /\ executions = <<>>
    /\ requests = {}

ConcNext ==
    \E i \in Invocations :
      \/ ConcStart(i)
      \/ ConcSubmitted(i)
      \/ ConcPoll(i)
      \/ ConcTimeout(i)
      \/ ConcStatusAnswered(i)
      \/ ConcResultsAnswered(i)

ConcSpec == ConcInit /\ [][ConcNext]_vars

(***************************************************************************)
(* Properties                                                              *)
(***************************************************************************)
Submissions == {i \in DOMAIN calls : calls[i].op = "start_query_execution"}

ResultRequests == {i \in DOMAIN calls : calls[i].op = "get_query_results"}

\* the execution id a response carries
ResponseId ==
    IF entry = "runner" THEN response.query_execution_id
                        ELSE response.execution_id

\* the response carries result rows
HasRows ==
    IF entry = "runner" THEN response.results.rows # <<>>
                        ELSE response.results # <<>>

\* the response reports a failure
IsFailure ==
    IF entry = "runner" THEN ~response.success
                        ELSE response.status # "SUCCEEDED"

\* C1: in the runner, when sql_query, database or output_location is missing
\* or empty, no request is ever issued to the query service and the
\* response returned carries an error field.
C1_MissingParamNoRequest ==
    (/\ entry = "runner"
     /\ \E k \in {"sql_query", "database", "output_location"} :
          event[k] \in {None, ""})
    => /\ calls = <<>>
       /\ pc = "done" => /\ "error" \in response.keys
                         /\ response.error # None

C1_Witness ==
    /\ entry = "runner" /\ pc = "done"
    /\ event.sql_query = "v" /\ event.database = "v"
    /\ event.output_location = None
    /\ response.statusCode = 500
    /\ calls = <<>>

\* C2: in the executor, start_query_execution is never called when the
\* query text is absent (None or empty).
C2_NoSubmissionWithoutQuery ==
    (entry = "executor" /\ QueryOf(event) \in {None, ""})
    => Submissions = {}

\* C3: execute_query always returns: whatever the service answers, the
\* invocation of the executor eventually reaches its return.
C3_ExecuteQueryReturns == (entry = "executor") ~> (pc = "done")

\* C4: when every status poll returned a non-terminal state and none
\* raised, the invocation ends with the timeout outcome carrying the
\* execution id the submission returned (runner: 408 and the timeout text;
\* executor: status TIMEOUT).
C4_TimeoutCarriesId ==
    (/\ pc = "done" /\ svc.issued # None /\ raised = None
     /\ svc.state \in NonTerminal)
    => IF entry = "runner"
       THEN /\ response.statusCode = 408
            /\ response.error = "Query execution timed out"
            /\ "query_execution_id" \in response.keys
            /\ response.query_execution_id = svc.issued
            /\ elapsed_time >= max_wait_time
       ELSE /\ response.status = "TIMEOUT"
            /\ response.execution_id = svc.issued
            /\ now - start_time >= max_wait_time

C4_Witness ==
    /\ entry = "runner" /\ pc = "done"
    /\ svc.state = "RUNNING" /\ raised = None
    /\ response.statusCode = 408
    /\ response.query_execution_id = "id-2"

\* C5: the executor's results are the rows of all pages in page order with
\* only the first row of the first page removed (first page not empty).
C5_ResultsAreAllRowsButHeader ==
    (/\ entry = "executor" /\ pc = "done"
     /\ response.status = "SUCCEEDED"
     /\ pages # <<>> /\ pages[1] > 0)
    => response.results = RowDictAll(Head(Delivered), Tail(Delivered))

C7_ResultsOnlyAfterSucceeded ==
    /\ (ResultRequests # {} \/ pc = "results") => svc.state = "SUCCEEDED"
    /\ (pc = "done" /\ HasRows) => response.status = "SUCCEEDED"

C7_Witness ==
    /\ entry = "executor" /\ pc = "done"
    /\ ResultRequests # {}
    /\ Len(response.results) = 2
    /\ response.status = "SUCCEEDED"

\* C8: after a FAILED or CANCELLED status the error of the response is
\* exactly the reason string the service supplied with that status.
C8_ErrorIsReasonVerbatim ==
    (/\ pc = "done" /\ raised = None
     /\ svc.state \in {"FAILED", "CANCELLED"} /\ svc.reason # None)
    => response.error = svc.reason

\* C9: start_query_execution is called at most once per invocation, and
\* only as the first request: nothing is submitted after any outcome.
C9_AtMostOneSubmission ==
    /\ Cardinality(Submissions) <= 1
    /\ \A i \in Submissions : i = 1
    /\ pc = "done" /\ svc.issued # None => Cardinality(Submissions) = 1

C9_Witness ==
    /\ entry = "runner" /\ pc = "done"
    /\ svc.state = "FAILED"
    /\ response.statusCode = 400
    /\ Submissions = {1}

\* C10: once the service has issued an execution id, every failure
\* response carries an error text and that execution id.
C10_FailureCarriesIssuedId ==
    (pc = "done" /\ svc.issued # None /\ IsFailure)
    => /\ response.error # None
       /\ ResponseId = svc.issued

\* the invocation ended with its timeout outcome
TimedOut ==
    /\ pc = "done"
    /\ IF entry = "runner" THEN response.statusCode = 408
                           ELSE response.status = "TIMEOUT"

\* C11: the timeout is a wall-clock deadline from submission (at time 0),
\* requests included: the timeout outcome comes once max_wait_time seconds
\* have passed, at the first check of the loop after that, so less than one
\* iteration (a request and a sleep) later.
C11_TimeoutAtWallClockDeadline ==
    TimedOut => /\ now >= max_wait_time
                /\ now < max_wait_time + latency + wait_interval

\* C12: in the executor, once a status poll has returned a terminal state,
\* the status of the response is that state.
C12_ResponseStatusIsTerminalState ==
    (entry = "executor" /\ pc = "done" /\ svc.state \in Terminal)
    => response.status = svc.state

\* C13: in a successful response whose first page held the header and data,
\* the k-th result row is the k-th data row, and the value of its i-th
\* cell is paired with the i-th header column, no cell being lost.
C13_CellsAlignedByPosition ==
    (/\ pc = "done" /\ pages # <<>> /\ pages[1] > 1
     /\ IF entry = "runner"
        THEN response.statusCode = 200 /\ response.results.error = None
        ELSE response.status = "SUCCEEDED")
    => LET header == Head(Delivered)
           source(k) == Delivered[k + 1]
       IN IF entry = "runner"
          THEN \A k \in 1..Len(response.results.rows) :
                 /\ Len(response.results.rows[k]) = Len(source(k))
                 /\ \A i \in 1..Len(source(k)) :
                      response.results.rows[k][i] = CellValue(source(k)[i])
          ELSE /\ Len(response.results) = Len(Delivered) - 1
               /\ \A k \in 1..Len(response.results) :
                    \A i \in 1..Len(source(k)) :
                      /\ i <= Len(header)
                      /\ header[i] \in DOMAIN response.results[k]
                      /\ response.results[k][header[i]] = CellValue(source(k)[i])

(***************************************************************************)
(* Properties of retail_data_etl.py                                        *)
(***************************************************************************)
\* the step of the retail script that starts at the given stage, completed
RetailStep(from) ==
    job = "retail" /\ stage = from /\ stage' \notin {from, "failed"}

\* the number of null cells among the six scored columns of a row
NullsAmongSix(r) ==
    Cardinality({f \in {"transaction_id", "customer_id", "product_id",
                        "quantity", "unit_price", "transaction_date"} :
                   r[f] = Null})

\* the score of a row is the fraction 1 - k/6
ScoreIs(r, k) ==
    /\ "data_quality_score" \in DOMAIN r
    /\ r.data_quality_score # Null
    /\ LET q == Val(r.data_quality_score)
       IN /\ q.d > 0
          /\ 6 * q.n = (6 - k) * q.d
          /\ 0 <= q.n /\ q.n <= q.d
          /\ k = 0 => q.n = q.d
          /\ k = 3 => 2 * q.n = q.d

\* C14: data_quality_check gives every record the score 1 - k/6, k the
\* number of nulls among the six scored fields; the score lies in [0,1], is
\* 1.0 for k = 0 and 0.5 for k = 3; no record is dropped and no other field
\* is dropped or altered.
C14_QualityScore ==
    [][RetailStep("data_quality_check") =>
         /\ Len(df') = Len(df)
         /\ \A i \in 1..Len(df) :
              /\ ScoreIs(df'[i], NullsAmongSix(df[i]))
              /\ DOMAIN df'[i] = DOMAIN df[i] \cup {"data_quality_score"}
              /\ \A f \in DOMAIN df[i] : df'[i][f] = df[i][f]]_vars

\* a record with three of the six fields missing has been scored 0.5
C14_Witness ==
    /\ job = "retail" /\ stage = "clean_and_standardize"
    /\ \E i \in 1..Len(df) :
         /\ NullsAmongSix(raw[i]) = 3
         /\ Val(df[i].data_quality_score).n * 2 =
              Val(df[i].data_quality_score).d

CategoryAliases ==
    {"Electronics", "ELECTRONICS", "electronics", "Clothing", "CLOTHING",
     "clothing", "Apparel", "Home", "HOME", "home", "Home & Garden",
     "Sports", "SPORTS", "sports", "Sports & Outdoors"}

PaymentAliases ==
    {"Credit Card", "CREDIT_CARD", "credit card", "Debit Card",
     "DEBIT_CARD", "debit card", "Cash", "CASH", "cash", "PayPal",
     "PAYPAL", "paypal"}

CanonicalCategories ==
    {Some("Electronics"), Some("Clothing"), Some("Home"), Some("Sports"),
     Some("Other")}

CanonicalPayments ==
    {Some("Credit Card"), Some("Debit Card"), Some("Cash"), Some("PayPal"),
     Some("Other")}

Unlisted(c, aliases) == c = Null \/ Val(c) \notin aliases

\* C15: clean_and_standardize maps every category and payment_method, null
\* included, into the closed set, maps a value outside the alias table to
\* "Other", maps its own result to itself, and drops no record.
C15_CanonicalizationTotalIdempotent ==
    [][RetailStep("clean_and_standardize") =>
         /\ Len(df') = Len(df)
         /\ \A i \in 1..Len(df) :
              /\ df'[i].category \in CanonicalCategories
              /\ df'[i].payment_method \in CanonicalPayments
              /\ Unlisted(df[i].category, CategoryAliases)
                   => df'[i].category = Some("Other")
              /\ Unlisted(df[i].payment_method, PaymentAliases)
                   => df'[i].payment_method = Some("Other")
              /\ StandardCategory(df'[i].category) = df'[i].category
              /\ StandardPaymentMethod(df'[i].payment_method) =
                   df'[i].payment_method]_vars

\* an unlisted category and an alias of a payment method have been mapped
C15_Witness ==
    /\ job = "retail" /\ stage = "filter_valid_data"
    /\ \E i \in 1..Len(df) :
         /\ raw[i].category = Some("Books")
         /\ df[i].category = Some("Other")
         /\ raw[i].payment_method = Some("CREDIT_CARD")
         /\ df[i].payment_method = Some("Credit Card")

\* C16: revenue_category is "High" from 500.00 on, "Medium" from 100.00 up
\* to 499.99, and "Low" for everything else, a null amount included.
C16_RevenueCategoryThresholds ==
    [][RetailStep("clean_and_standardize") =>
         \A i \in 1..Len(df) :
           LET total == df[i].total_amount
               category == df'[i].revenue_category
           IN IF total = Null THEN category = Some("Low")
              ELSE /\ Val(total) >= 50000 => category = Some("High")
                   /\ (Val(total) >= 10000 /\ Val(total) < 50000)
                        => category = Some("Medium")
                   /\ Val(total) < 10000 => category = Some("Low")]_vars

\* 500.00 has been classified "High" and 99.99 "Low" in one batch
C16_Witness ==
    /\ job = "retail" /\ stage = "filter_valid_data"
    /\ \E i, j \in 1..Len(df) :
         /\ df[i].total_amount = Some(50000)
         /\ df[i].revenue_category = Some("High")
         /\ df[j].total_amount = Some(9999)
         /\ df[j].revenue_category = Some("Low")

\* what the filter has to retain, at the time the filter reads
Retained(r, today) ==
    /\ \A f \in {"transaction_id", "customer_id", "product_id", "quantity",
                 "unit_price", "total_amount", "transaction_timestamp"} :
         r[f] # Null
    /\ Val(r.quantity) > 0
    /\ Val(r.unit_price) > 0
    /\ Val(r.total_amount) > 0
    /\ LET t == Val(r.transaction_timestamp)
       IN t.day < today.day \/ (t.day = today.day /\ t.time <= today.time)

\* d is s with some elements left out
RECURSIVE IsSubsequence(_, _)
IsSubsequence(d, s) ==
    IF d = <<>> THEN TRUE
    ELSE IF s = <<>> THEN FALSE
    ELSE IF Head(d) = Head(s) THEN IsSubsequence(Tail(d), Tail(s))
    ELSE IsSubsequence(d, Tail(s))

\* C17: filter_valid_data only removes records: the output holds records of
\* the input, unchanged, and a record is retained exactly when the seven
\* essential fields are non-null, the three amounts positive and the
\* timestamp not after the current time.
C17_FilterIsPureSubset ==
    [][RetailStep("filter_valid_data") =>
         /\ IsSubsequence(df', df)
         /\ Len(df') =
              Cardinality({i \in 1..Len(df) : Retained(df[i], current_date')})
         /\ \A j \in 1..Len(df') : Retained(df'[j], current_date')]_vars

\* the filter has retained one record of a batch and removed the other
C17_Witness ==
    /\ job = "retail" /\ stage = "select"
    /\ Len(raw) = 2 /\ Len(df) = 1
    /\ raw[2].quantity = Some(0)
    /\ df[1].transaction_id = raw[1].transaction_id

\* C18: the batch written by main holds no two records with the same
\* transaction_id.
C18_UniqueTransactionIds ==
    (job = "retail" /\ stage = "written") =>
        \A i, j \in 1..Len(df) :
          i # j => df[i].transaction_id # df[j].transaction_id

\* the batch of the end-to-end case: five records, one with a null
\* customer_id, one with quantity 0, two sharing a transaction_id, and one
\* fully valid with category "ELECTRONICS"
IsBatchOfFive(b) ==
    /\ Len(b) = 5
    /\ \E a, q, s, t, v \in 1..5 :
         /\ Cardinality({a, q, s, t, v}) = 5
         /\ b[a].customer_id = Null
         /\ b[q].quantity = Some(0)
         /\ b[s].transaction_id = b[t].transaction_id
         /\ \A f \in DOMAIN b[v] : b[v][f] # Null
         /\ b[v].category = Some("ELECTRONICS")
         /\ Retained(WithColumn(b[v], "transaction_timestamp",
                                ToTimestamp(b[v].transaction_date)),
                     current_date)

\* C20: the end-to-end batch of five yields exactly one record, with
\* category "Electronics" and score 1.0.
C20_BatchOfFiveYieldsOne ==
    (job = "retail" /\ stage = "written" /\ IsBatchOfFive(raw)) =>
        /\ Len(df) = 1
        /\ df[1].category = Some("Electronics")
        /\ Val(df[1].data_quality_score).n = Val(df[1].data_quality_score).d

(***************************************************************************)
(* Properties of job_script.py                                             *)
(***************************************************************************)
\* C19: dropDuplicates on transaction_id keeps exactly one record for every
\* transaction_id of its input, keeps only records of its input, and applied
\* to its own output changes nothing.
C19_DropDuplicatesKeepsOnePerId ==
    [][(job = "script" /\ stage = "dropDuplicates" /\ stage' # stage) =>
         /\ \A i \in 1..Len(df) :
              Cardinality({j \in 1..Len(df') :
                             df'[j][transaction_id] = df[i][transaction_id]})
                = 1
         /\ \A j \in 1..Len(df') : \E i \in 1..Len(df) : df[i] = df'[j]
         /\ DropDuplicates(df') = {df'}]_vars

\* of two different records with one transaction_id, one has been kept
C19_Witness ==
    /\ job = "script" /\ stage = "partition_columns"
    /\ Len(raw) = 2 /\ Len(df) = 1
    /\ raw[1][RawCustomerId] # raw[2][RawCustomerId]

(***************************************************************************)
(* Further properties of the ETL scripts                                   *)
(***************************************************************************)
\* a text that to_timestamp cannot read in the form yyyy-MM-dd HH:mm:ss
Unparseable(c) == c = Null \/ ParseDay(Val(c)) < 0 \/ ParseTime(Val(c)) < 0

\* C21: no step of the retail script aborts on a record's content: a null
\* or unparseable transaction_date gives a null transaction_timestamp, year
\* and month, an unlisted category or payment method gives "Other", a null
\* total_amount gives "Low", and the job goes on to the filter.
C21_NoAbortOnMalformedValues ==
    [][(job = "retail" /\ stage = "clean_and_standardize" /\ stage' # stage)
         => /\ stage' = "filter_valid_data"
            /\ Len(df') = Len(df)
            /\ \A i \in 1..Len(df) :
                 /\ Unparseable(df[i].transaction_date)
                      => /\ df'[i].transaction_timestamp = Null
                         /\ df'[i].year = Null
                         /\ df'[i].month = Null
                 /\ Unlisted(df[i].category, CategoryAliases)
                      => df'[i].category = Some("Other")
                 /\ Unlisted(df[i].payment_method, PaymentAliases)
                      => df'[i].payment_method = Some("Other")
                 /\ df[i].total_amount = Null
                      => df'[i].revenue_category = Some("Low")]_vars

\* a cell that holds a number greater than 0
HoldsPositive(c) ==
    /\ c # Null
    /\ CastToNumber(c) # Null
    /\ Val(CastToNumber(c)) > 0

\* C22: every record written by job_script.py has non-null transaction_id,
\* date, customer_id, product_category and total_amount, and quantity,
\* price_per_unit and total_amount greater than 0.
C22_ScriptOutputIsClean ==
    (job = "script" /\ stage = "written") =>
        \A i \in 1..Len(df) :
          /\ \A c \in {transaction_id, date, customer_id, product_category,
                       total_amount} : df[i][c] # Null
          /\ HoldsPositive(df[i][quantity])
          /\ HoldsPositive(df[i][price_per_unit])
          /\ HoldsPositive(df[i][total_amount])

\* C29: every record that passes filter_valid_data has the six scored
\* fields non-null, and every record written by the retail script has the
\* score 1.0.
C29_WrittenScoreIsOne ==
    /\ (job = "retail" /\ stage = "select") =>
         \A i \in 1..Len(df) :
           /\ NullsAmongSix(df[i]) = 0
           /\ Val(df[i].data_quality_score).n =
                Val(df[i].data_quality_score).d
    /\ (job = "retail" /\ stage = "written") =>
         \A i \in 1..Len(df) :
           /\ df[i].data_quality_score # Null
           /\ Val(df[i].data_quality_score).n =
                Val(df[i].data_quality_score).d

\* a batch with a record of score 5/6 has been written without it
C29_Witness ==
    /\ job = "retail" /\ stage = "written"
    /\ Len(raw) = 5 /\ Len(df) = 3
    /\ \E i \in 1..5 : NullsAmongSix(raw[i]) = 1

(***************************************************************************)
(* Further properties of the query entry points                            *)
(***************************************************************************)
\* a step by which an invocation handles the end of its wait
TimeoutStep ==
    IF entry = "runner"
    THEN pc = "poll" /\ pc' = "done" /\ response'.statusCode = 408
    ELSE entry = "executor" /\ status' = "TIMEOUT"

\* C25: an invocation only ever issues start_query_execution,
\* get_query_execution and get_query_results, and the steps that handle a
\* timeout leave the state of the execution at the service as it is.
C25_NoCancellation ==
    [][/\ \A i \in 1..Len(calls') :
            calls'[i].op \in {"start_query_execution", "get_query_execution",
                              "get_query_results"}
       /\ TimeoutStep => svc' = svc]_vars

\* the executor has timed out on a running query and returned
C25_Witness ==
    /\ entry = "executor" /\ pc = "done"
    /\ response.status = "TIMEOUT"
    /\ svc.state = "RUNNING"
    /\ calls[Len(calls)].op = "get_query_execution"

\* the status requests an invocation has issued
StatusRequests ==
    Cardinality({i \in 1..Len(calls) : calls[i].op = "get_query_execution"})

\* C27: the runner's elapsed_time is a multiple of wait_interval in
\* 0..max_wait_time; a status request is issued only at elapsed_time <= 295,
\* at most 60 of them; at elapsed_time = 300 the runner returns 408 without
\* another request, whatever the query's state is by then.
C27_RunnerPollsSixtyTimes ==
    [][entry = "runner" =>
         /\ elapsed_time' \in {k * 5 : k \in 0..60}
         /\ StatusRequests' <= 60
         /\ StatusRequests' # StatusRequests => elapsed_time <= 295
         /\ (pc = "poll" /\ elapsed_time = 300)
              => /\ pc' = "done"
                 /\ response'.statusCode = 408
                 /\ calls' = calls]_vars

\* the runner has returned 408 after its 60th status request
C27_Witness ==
    /\ entry = "runner" /\ pc = "done"
    /\ response.statusCode = 408
    /\ StatusRequests = 60
    /\ elapsed_time = 300

\* C28: the runner reports statusCode 200 with success = true only when
\* retrieving the results did not raise.
C28_SuccessOnlyWithResults ==
    (entry = "runner" /\ pc = "done" /\ response.statusCode = 200
       /\ response.success)
      => /\ raised = None
         /\ response.results.error = None

(***************************************************************************)
(* Properties of the AI query processor                                    *)
(***************************************************************************)
ModelCalls == {i \in DOMAIN ai_calls : ai_calls[i] \in {"openai", "bedrock"}}

TemplateCalls ==
    {i \in DOMAIN ai_calls :
       ai_calls[i] \in {"_template_based_query_generation",
                        "_template_based_summary"}}

\* the handler has returned what the SQL template produced
TemplateQueryReturned ==
    /\ ai_pc = "done"
    /\ ai_event.operation = "generate_sql"
    /\ ai_calls # <<>>
    /\ ai_calls[Len(ai_calls)] = "_template_based_query_generation"
    /\ ai_response.statusCode = 200

RuleCategorySales(t) ==
    Contains(Lower(t), SalesKeyword) /\ Contains(Lower(t), ByCategoryKeyword)

RuleTopProducts(t) == Contains(Lower(t), TopProductsKeyword)

RuleMonthlyRevenue(t) == Contains(Lower(t), MonthlyRevenueKeyword)

\* C23: for a request that is a text the template function always returns,
\* and what it returns is the template of the first rule, in the order
\* category sales, top products, monthly revenue, that the lower-cased text
\* matches, or the overall totals when it matches none.
C23_FirstMatchingRuleWins ==
    /\ ai_pc = "done" /\ ai_event.operation = "generate_sql"
       /\ TemplateCalls # {} /\ ~IsNull(user_request)
       => TemplateQueryReturned /\ Cardinality(TemplateCalls) = 1
    /\ TemplateQueryReturned =>
         LET t == Val(user_request)
             sql == Val(ai_response.sql_query)
         IN  /\ RuleCategorySales(t) => sql = CategorySalesQuery
             /\ ~RuleCategorySales(t) /\ RuleTopProducts(t)
                => sql = TopProductsQuery
             /\ ~RuleCategorySales(t) /\ ~RuleTopProducts(t)
                /\ RuleMonthlyRevenue(t)
                => sql = MonthlyRevenueQuery
             /\ ~RuleCategorySales(t) /\ ~RuleTopProducts(t)
                /\ ~RuleMonthlyRevenue(t)
                => sql = OverallTotalsQuery

C23_Witness ==
    /\ TemplateQueryReturned
    /\ user_request = Some(SalesAndTopProductsRequest)
    /\ RuleCategorySales(SalesAndTopProductsRequest)
    /\ RuleTopProducts(SalesAndTopProductsRequest)
    /\ ai_response.sql_query = Some(CategorySalesQuery)

\* the handler has returned and no model answered
EveryModelCallFailed ==
    /\ ai_pc = "done"
    /\ ModelCalls # {}
    /\ ai_calls[Len(ai_calls)] \notin {"openai", "bedrock"}

\* C24: when every model call of an invocation with the operation
\* generate_sql or summarize_results has failed, the handler returns status
\* 200 with the output of the template, never status 500.
C24_ModelFailureNeverRaised ==
    EveryModelCallFailed
    /\ ai_event.operation \in {"generate_sql", "summarize_results"}
    => /\ ai_response.statusCode = 200
       /\ ai_event.operation = "generate_sql"
          => ai_response.sql_query =
               Some(_template_based_query_generation(Val(user_request)))
       /\ ai_event.operation = "summarize_results"
          => ai_response.summary =
               Some(_template_based_summary(query_results))

\* C30: natural_language_to_sql calls at most one model, OpenAI when a key
\* is configured and Bedrock when none is, calls the template only after
\* that model call, and returns one SQL text.
C30_OneModelThenTemplate ==
    ai_event.operation = "generate_sql" =>
      /\ Cardinality(ModelCalls) <= 1
      /\ \A i \in ModelCalls :
           ai_calls[i] = IF openai_api_key THEN "openai" ELSE "bedrock"
      /\ \A i \in TemplateCalls : \E j \in ModelCalls : j < i
      /\ ai_pc = "done"
         => /\ ai_response.statusCode = 200
            /\ ~IsNull(ai_response.sql_query)

(***************************************************************************)
(* Properties of concurrent invocations of the runner                      *)
(***************************************************************************)
\* the executions the service created for the submission of invocation i
ExecutionsOwnedBy(i) ==
    {k \in 1..Len(executions) : executions[k].owner = i}

OutstandingOf(i) == {r \in requests : r.from = i}

\* the response of a returned invocation follows from its own event and
\* from what the service holds for the execution it submitted
ResponseIsOwn(i) ==
    LET inv == invocations[i]
        own == ExecutionsOwnedBy(i)
    IN  /\ Cardinality(own) <= 1
        /\ ~RunnerValid(inv.event)
           => inv.response.statusCode = 500 /\ own = {}
        /\ inv.response.statusCode \in {200, 400, 408}
           => \E k \in own :
                /\ inv.response.query_execution_id = ExecutionIds[k]
                /\ executions[k].query = inv.event.sql_query
                /\ inv.response.statusCode = 200
                   => /\ executions[k].state = "SUCCEEDED"
                      /\ inv.response.results \in
                           {ResultsOfQuery(inv.event.sql_query),
                            ResultsError(ServiceError)}
                /\ inv.response.statusCode = 400
                   => /\ executions[k].state \in {"FAILED", "CANCELLED"}
                      /\ inv.response.error =
                           "Query failed: " \o
                           (IF executions[k].reason = None
                            THEN "Unknown error" ELSE executions[k].reason)
                /\ inv.response.statusCode = 408
                   => /\ executions[k].state = "RUNNING"
                      /\ inv.elapsed_time = max_wait_time

\* C26: of invocations that run at the same time, each sends its status and
\* result requests only for the execution id the service returned to its
\* own submission, has at most one request outstanding, sent from the
\* position of the handler that waits for its answer, and returns a
\* response that follows from its own event and the service's answers for
\* its own execution.
C26_InvocationsAreIndependent ==
    \A i \in DOMAIN invocations :
      /\ \A r \in OutstandingOf(i) :
           r.op # "start_query_execution"
           => \E k \in ExecutionsOwnedBy(i) : r.id = ExecutionIds[k]
      /\ Cardinality(OutstandingOf(i)) <= 1
      /\ OutstandingOf(i) # {}
         <=> invocations[i].pc \in {"submitting", "polling", "fetching"}
      /\ invocations[i].pc = "done" => ResponseIsOwn(i)

\* two invocations poll at the same time, the second for the execution
\* that was submitted first
C26_Witness ==
    /\ Len(executions) = 2
    /\ executions[1].owner = 2
    /\ Request(1, "get_query_execution", ExecutionIds[2]) \in requests
    /\ Request(2, "get_query_execution", ExecutionIds[1]) \in requests

=============================================================================
